---- MODULE Spec2Model ----
(***************************************************************************)
(* State-machine model of the SnapEat bot: the in-memory session store     *)
(* (bot.user_data), the telebot dialog states, the persisted FoodAnalysis  *)
(* and UserSubscription tables, the janitor (cleanup_user_data) and the    *)
(* subscription reconciler (cleanup_expired_subscriptions).                *)
(*                                                                         *)
(* Time is in seconds, as in time.time() and datetime.utcnow().  Macro     *)
(* values (calories, proteins, fats, carbs) are in hundredths, so that     *)
(* round(x, 1) is "round to a multiple of 10".                             *)
(***************************************************************************)
EXTENDS Integers, Sequences, FiniteSets, TLC

(***************************************************************************)
(* Bounds of the model                                                     *)
(***************************************************************************)
StartTime == 1000000
MaxMsg == 2
MaxRows == 2
MaxSubs == 2
NumUsers == 5
\* the worker threads that can be inside track_api_call at once
MaxCalls == 2
\* the restarts of the process that are followed
MaxRestarts == 2
\* self.max_response_times, scaled: 100 samples in the program
max_response_times == 2
\* the calls of track_api_call with a response time that are followed
MaxTimed == 3
\* config.FREE_REQUESTS_LIMIT: the deployment sets it, the model keeps it small
FREE_REQUESTS_LIMIT == 1
\* USER_DATA_MAX_SIZE, scaled: 10000 records in the program, one less than
\* the users of the model here, so that the store can exceed it
USER_DATA_MAX_SIZE == 4

\* telegram ids of the users
Users == 1..NumUsers

\* the users of the specifications that need only two
Pair == {1, 2}

(***************************************************************************)
(* Program constants                                                       *)
(***************************************************************************)
USER_DATA_MAX_AGE == 7200
FOOD_DATA_MAX_AGE == 3600
CLEANUP_COMMAND_MAX_AGE == 3600
TIMEZONE_OFFSET == 3
SECONDS_PER_HOUR == 60 * 60
SECONDS_PER_DAY == 24 * SECONDS_PER_HOUR
DAYS_PER_MONTH == 30
NOTIFY_INTERVAL == 82800
NOTIFY_CACHE_HORIZON == 172800
AGE_MIN == 12
AGE_MAX == 100
WEIGHT_MIN == 30
WEIGHT_MAX == 300
HEIGHT_MIN == 100
HEIGHT_MAX == 250
MAX_RETRIES == 3
CALORIES_MIN == 500
CALORIES_MAX == 10000
PROTEINS_MIN == 10
PROTEINS_MAX == 500
FATS_MIN == 10
FATS_MAX == 500
CARBS_MIN == 10
CARBS_MAX == 1000

VARIABLES
    now,                \* the wall clock: time.time() = datetime.utcnow(), seconds
    user_data,          \* bot.user_data: user id -> dict (key -> value)
    state,              \* telebot StateMemoryStorage: user id -> dialog state
    next_message_id,    \* id the next message sent by the bot will get
    result_messages,    \* result messages sent by the bot: id -> user and buttons offered
    db_users,           \* table users: telegram id -> profile columns
    rows,               \* table food_analyses, in insertion order
    subs,               \* table user_subscriptions, in insertion order
    notification_cache, \* bot.notification_cache: user id -> time of last notification
    sent,               \* renewal notifications delivered by bot.send_message
    last_event,         \* what the last handler run answered
    next_step_handlers, \* telebot next-step handlers: the chats with one registered
    reconciler,         \* the reconciler thread inside cleanup_expired_subscriptions
    loops,              \* the background threads: where each loop stands
    retry,              \* the call of a db_retry wrapper in progress
    metrics,            \* metrics_collector.metrics: the counters in memory
    metrics_file,       \* data/metrics.json: the snapshot on disk, empty if none
    lock,               \* metrics_collector.lock: the thread holding it, 0 if free
    tracking,           \* the threads inside MetricsCollector.track_api_call
    workers,            \* the telebot worker threads inside add_stats_callback or
                        \* photo_handler
    fixer,              \* the handler thread of /fix_subscriptions inside
                        \* cleanup_expired_subscriptions
    janitor             \* the janitor thread inside a cycle of cleanup_user_data

vars == <<now, user_data, state, next_message_id, result_messages, db_users,
          rows, subs, notification_cache, sent, last_event, next_step_handlers,
          reconciler, loops, retry, metrics, metrics_file, lock, tracking, workers,
          fixer, janitor>>

\* the variables no session, database or whole-cycle operation writes
control == <<next_step_handlers, reconciler, loops, retry, lock, tracking, workers, fixer,
            janitor>>

\* the metrics in memory and on disk
monitoring == <<metrics, metrics_file>>

\* the background loops: the janitor, the reconciler, the metrics flush
Loops == {"cleanup_user_data", "cleanup_worker", "save_periodically"}

(***************************************************************************)
(* Python dicts as functions with a variable domain                        *)
(***************************************************************************)
EmptyDict == <<>>

Put(d, k, v) == [x \in (DOMAIN d) \cup {k} |-> IF x = k THEN v ELSE d[x]]

Drop(d, K) == [x \in (DOMAIN d) \ K |-> d[x]]

Get(d, k, default) == IF k \in DOMAIN d THEN d[k] ELSE default

Max(a, b) == IF a >= b THEN a ELSE b

Abs(x) == IF x >= 0 THEN x ELSE 0 - x

\* f'added_to_stats_{message_id}'
StatsKeys == <<"added_to_stats_1", "added_to_stats_2", "added_to_stats_3",
               "added_to_stats_4", "added_to_stats_5", "added_to_stats_6">>

StatsKey(m) == StatsKeys[m]

\* key.startswith('added_to_stats_')
HasStatsPrefix(k) == \E i \in DOMAIN StatsKeys : StatsKeys[i] = k

\* key.startswith('temp_'): no handler writes such a key
HasTempPrefix(k) == FALSE

\* the outcome of a handler run: the answer it gave and a count it logged
EventN(op, u, answer, n) == [op |-> op, user |-> u, answer |-> answer, n |-> n]

Event(op, u, answer) == EventN(op, u, answer, 0)

(***************************************************************************)
(* The recognition collaborator's answers.  NoFood stands for None and for *)
(* the no_food / no_voice sentinels.                                       *)
(***************************************************************************)
Foods ==
    { [name |-> "apple", calories |-> 9500, proteins |-> 50, fats |-> 30,
       carbs |-> 2500, portion_weight |-> 100, estimated |-> FALSE],
      [name |-> "soup", calories |-> 25055, proteins |-> 1234, fats |-> 980,
       carbs |-> 3020, portion_weight |-> 150, estimated |-> TRUE] }

NoFood == [name |-> "no_food", calories |-> 0, proteins |-> 0, fats |-> 0,
           carbs |-> 0, portion_weight |-> 100, estimated |-> FALSE]

RecognitionResults == Foods \cup {NoFood}

(***************************************************************************)
(* Text inputs: what int(), float() and str.isdigit() make of a message    *)
(***************************************************************************)
Tok(kind, val) == [kind |-> kind, val |-> val]

\* kind "int": a string of decimal digits; "neg": a minus sign and digits;
\* "nan": the text "nan"; "word": any other text; "cancel": "отмена";
\* "superscript": a text such as "\u00b2", made of characters that
\* str.isdigit() accepts and int() rejects.
IntVals == {0, 11, 12, 100, 101, 301}

TextInputs == {Tok("int", v) : v \in IntVals} \cup
              {Tok("neg", 0 - 5), Tok("nan", 0), Tok("word", 0), Tok("cancel", 0)}

\* int(text): raises ValueError unless the text is an integer literal
IntParses(t) == t.kind \in {"int", "neg"}

\* float(text.replace(',', '.')): parses integer literals and "nan"
FloatParses(t) == t.kind \in {"int", "neg", "nan"}

Float(v) == [nan |-> FALSE, v |-> v]

NaN == [nan |-> TRUE, v |-> 0]

FloatOf(t) == IF t.kind = "nan" THEN NaN ELSE Float(t.val)

\* IEEE comparison: every comparison with nan is false
FloatLess(a, b) == ~a.nan /\ ~b.nan /\ a.v < b.v

\* text.isdigit()
IsDigit(t) == t.kind \in {"int", "superscript"}

IsCancel(t) == t.kind = "cancel"

(***************************************************************************)
(* Clocks                                                                  *)
(***************************************************************************)
\* datetime.utcnow() + timedelta(hours=3)
now_msk == now + TIMEZONE_OFFSET * SECONDS_PER_HOUR

\* determine_meal_type with the upper ends of the ranges included
determine_meal_type_inclusive(t) ==
    LET hour == (t \div SECONDS_PER_HOUR) % 24
    IN  IF 5 <= hour /\ hour <= 11 THEN "breakfast"
        ELSE IF 11 <= hour /\ hour <= 16 THEN "lunch"
        ELSE IF 16 <= hour /\ hour <= 21 THEN "dinner"
        ELSE "snack"

\* determine_meal_type(time)
determine_meal_type(t) ==
    LET hour == (t \div SECONDS_PER_HOUR) % 24
    IN  IF 5 <= hour /\ hour < 11 THEN "breakfast"
        ELSE IF 11 <= hour /\ hour < 16 THEN "lunch"
        ELSE IF 16 <= hour /\ hour < 21 THEN "dinner"
        ELSE "snack"

(***************************************************************************)
(* MetricsCollector: the counters and their file.  start_time, start_times *)
(* and the response-time samples are left out: no counter depends on them. *)
(***************************************************************************)
\* the names track_api_call is called with
ApiNames == {"db_save_food_analysis", "db_add_subscription"}

\* the threads that call track_api_call
Threads == 1..MaxCalls

\* list(times)[-n:]: the last n elements of a sequence
LastN(times, n) ==
    IF Len(times) <= n THEN times ELSE SubSeq(times, Len(times) - n + 1, Len(times))

\* the containers of response times: a deque with its maxlen, or a plain
\* list (maxlen 0), which is what defaultdict(list) makes for a missing name
Deque(times) == [maxlen |-> max_response_times, items |-> LastN(times, max_response_times)]

EmptyList == [maxlen |-> 0, items |-> <<>>]

\* container.append(x): a deque at its maxlen drops its oldest element
ContainerAppend(c, x) ==
    IF c.maxlen = 0 THEN [c EXCEPT !.items = Append(@, x)]
    ELSE [c EXCEPT !.items = LastN(Append(@, x), c.maxlen)]

\* _init_default_metrics
DefaultMetrics ==
    [api_calls |-> EmptyDict, api_errors |-> EmptyDict,
     api_response_times |-> EmptyDict, photo_analyses |-> 0,
     voice_analyses |-> 0, text_analyses |-> 0, barcode_scans |-> 0,
     unique_users |-> {}, user_commands |-> EmptyDict,
     subscription_purchases |-> 0, errors |-> EmptyDict, restart_count |-> 0]

\* the counters kept as plain integers, and those kept per name
ScalarCounters == {"photo_analyses", "voice_analyses", "text_analyses", "barcode_scans",
                   "subscription_purchases"}
DictCounters == {"api_calls", "api_errors", "user_commands", "errors"}

\* sum(d.values())
RECURSIVE SumValues(_)
SumValues(d) ==
    IF DOMAIN d = {} THEN 0
    ELSE LET k == CHOOSE x \in DOMAIN d : TRUE
         IN  d[k] + SumValues([x \in (DOMAIN d) \ {k} |-> d[x]])

\* list(a_set): the elements in some order
Lists(S) ==
    {q \in [1..Cardinality(S) -> S] : \A i, j \in 1..Cardinality(S) : q[i] = q[j] => i = j}

\* set(a_list)
SetOf(q) == {q[i] : i \in DOMAIN q}

\* track_photo_analysis, track_voice_analysis, track_text_analysis:
\* self.metrics[counter] += 1; self.metrics['unique_users'].add(user_id)
TrackAnalysis(m, counter, u) ==
    [m EXCEPT ![counter] = m[counter] + 1, !.unique_users = m.unique_users \cup {u}]

\* track_subscription_purchase
TrackPurchase(m) == [m EXCEPT !.subscription_purchases = m.subscription_purchases + 1]

\* the analysis counter of a handler
AnalysisCounter(op) ==
    IF op = "photo_handler" THEN "photo_analyses"
    ELSE IF op = "voice_handler" THEN "voice_analyses"
    ELSE "text_analyses"

\* save_metrics: the files json.dump can write for the metrics m
Serialised(m) ==
    { [api_calls |-> m.api_calls, api_errors |-> m.api_errors,
       api_response_times |->
           [k \in DOMAIN m.api_response_times |-> m.api_response_times[k].items],
       photo_analyses |-> m.photo_analyses, voice_analyses |-> m.voice_analyses,
       text_analyses |-> m.text_analyses, barcode_scans |-> m.barcode_scans,
       unique_users |-> q, user_commands |-> m.user_commands,
       subscription_purchases |-> m.subscription_purchases, errors |-> m.errors,
       restart_count |-> m.restart_count] : q \in Lists(m.unique_users) }

\* for key, count in saved.items(): d[key] = count
AssignAll(d, saved) ==
    [k \in (DOMAIN d) \cup (DOMAIN saved) |-> IF k \in DOMAIN saved THEN saved[k] ELSE d[k]]

\* _load_metrics without the increment of restart_count
LoadMetricsSameCount(m, file) ==
    IF file = EmptyDict THEN m
    ELSE [m EXCEPT !.api_calls = AssignAll(m.api_calls, file.api_calls),
                   !.api_errors = AssignAll(m.api_errors, file.api_errors),
                   !.api_response_times =
                       AssignAll(m.api_response_times,
                                 [k \in DOMAIN file.api_response_times |->
                                     Deque(file.api_response_times[k])]),
                   !.photo_analyses = file.photo_analyses,
                   !.voice_analyses = file.voice_analyses,
                   !.text_analyses = file.text_analyses,
                   !.barcode_scans = file.barcode_scans,
                   !.unique_users = SetOf(file.unique_users),
                   !.user_commands = AssignAll(m.user_commands, file.user_commands),
                   !.subscription_purchases = file.subscription_purchases,
                   !.errors = AssignAll(m.errors, file.errors),
                   !.restart_count = file.restart_count]

\* _load_metrics: the metrics m after loading the file, if there is one
LoadMetrics(m, file) ==
    IF file = EmptyDict THEN m
    ELSE [m EXCEPT !.api_calls = AssignAll(m.api_calls, file.api_calls),
                   !.api_errors = AssignAll(m.api_errors, file.api_errors),
                   !.api_response_times =
                       AssignAll(m.api_response_times,
                                 [k \in DOMAIN file.api_response_times |->
                                     Deque(file.api_response_times[k])]),
                   !.photo_analyses = file.photo_analyses,
                   !.voice_analyses = file.voice_analyses,
                   !.text_analyses = file.text_analyses,
                   !.barcode_scans = file.barcode_scans,
                   !.unique_users = SetOf(file.unique_users),
                   !.user_commands = AssignAll(m.user_commands, file.user_commands),
                   !.subscription_purchases = file.subscription_purchases,
                   !.errors = AssignAll(m.errors, file.errors),
                   !.restart_count = file.restart_count + 1]

\* with self.lock: without waiting for the lock
LockIgnored == TRUE

\* with self.lock: the lock can be taken
LockFree == lock = 0

\* a thread outside track_api_call
Idle == [pc |-> "idle", api_name |-> "none", response_time |-> 0, error |-> FALSE,
         read |-> 0]

\* no /fix_subscriptions command is being handled; cache is the dict the
\* comprehension at the end of cleanup_expired_subscriptions has built
IdleFixer ==
    [pc |-> "idle", expired_subscriptions |-> <<>>, current_time |-> 0,
     cache |-> EmptyDict]

\* the janitor thread asleep between two cycles
IdleJanitor == [pc |-> "sleep", current_time |-> 0, users_to_remove |-> {}]

\* a worker thread that is not inside a handler; answer is what its last run
\* of a handler answered, started the time.time() of update_user_activity
IdleWorker ==
    [pc |-> "idle", user |-> 0, message_id |-> 0,
     food_data |-> [name |-> NoFood.name, calories |-> 0, proteins |-> 0, fats |-> 0,
                    carbs |-> 0, portion_weight |-> 100, estimated |-> FALSE,
                    analysis |-> 0],
     analysis_id |-> 0, answer |-> "none", started |-> 0]

\* the frame of a db_retry wrapper whose wrapped method has called another
\* wrapped method: its function and its attempt; as history, the invocations
\* of the inner method its earlier attempts made, and the store accesses of
\* this call that returned.  NoCaller: the call is not nested.
NoCaller == [func |-> "none", attempt |-> 0, earlier |-> 0, returned |-> 0]

(***************************************************************************)
(* Initial state: the process has just started on an empty database        *)
(***************************************************************************)
Init ==
    /\ now = StartTime
    /\ user_data = EmptyDict
    /\ state = [u \in Users |-> "None"]
    /\ next_message_id = 1
    /\ result_messages = EmptyDict
    /\ db_users = EmptyDict
    /\ rows = <<>>
    /\ subs = <<>>
    /\ notification_cache = EmptyDict
    /\ sent = <<>>
    /\ last_event = Event("start", 0, "none")
    /\ next_step_handlers = {}
    /\ reconciler = [pc |-> "sleep", expired_subscriptions |-> <<>>, current_time |-> 0]
    /\ loops = [l \in Loops |-> "try"]
    /\ retry = [pc |-> "idle", func |-> "none", user |-> 0, attempt |-> 0,
                invocations |-> 0, last |-> [class |-> "none", keyword |-> "none"],
                slept |-> 0, caller |-> NoCaller]
    /\ metrics = DefaultMetrics
    /\ metrics_file = EmptyDict
    /\ lock = 0
    /\ tracking = [t \in Threads |-> Idle]
    /\ workers = [t \in Threads |-> IdleWorker]
    /\ fixer = IdleFixer
    /\ janitor = IdleJanitor

\* time passes: the clock advances to a later instant t
Tick(t) ==
    /\ t > now
    /\ now' = t
    /\ last_event' = Event("tick", 0, "none")
    /\ UNCHANGED <<control, monitoring, user_data, state, next_message_id, result_messages,
                   db_users, rows, subs, notification_cache, sent>>

(***************************************************************************)
(* DatabaseManager                                                         *)
(***************************************************************************)
\* session.query(User).filter_by(telegram_id=...).first() or User(telegram_id=...)
WithUser(U, u) == IF u \in DOMAIN U THEN U ELSE Put(U, u, EmptyDict)

\* ExpiredOf with end_date < t
ExpiredOfStrict(S, u, t) ==
    {i \in DOMAIN S : S[i].user_id = u /\ S[i].is_active /\ S[i].end_date < t}

\* check_subscription_status: the rows it deactivates and commits
ExpiredOf(S, u, t) ==
    {i \in DOMAIN S : S[i].user_id = u /\ S[i].is_active /\ S[i].end_date <= t}

DeactivateAll(S, I) ==
    [i \in DOMAIN S |-> IF i \in I THEN [S[i] EXCEPT !.is_active = FALSE] ELSE S[i]]

SubsAfterCheck(u) ==
    IF u \notin DOMAIN db_users THEN subs
    ELSE DeactivateAll(subs, ExpiredOf(subs, u, now_msk))

\* check_subscription_status: the value it returns
ActiveOf(S, u, t) ==
    {i \in DOMAIN S : S[i].user_id = u /\ S[i].is_active /\ S[i].end_date > t}

IsSubscribed(u) ==
    /\ u \in DOMAIN db_users
    /\ ActiveOf(SubsAfterCheck(u), u, now_msk) # {}

\* UsedRequests counting the rows of the current day only
UsedRequestsToday(u) ==
    Cardinality({i \in DOMAIN rows :
        /\ rows[i].user_id = u
        /\ rows[i].analysis_date \div SECONDS_PER_DAY = now_msk \div SECONDS_PER_DAY})

\* session.query(FoodAnalysis).join(User).filter(...).count()
UsedRequests(u) == Cardinality({i \in DOMAIN rows : rows[i].user_id = u})

Infinite == [inf |-> TRUE, n |-> 0]

Finite(n) == [inf |-> FALSE, n |-> n]

\* get_remaining_free_requests: the value it returns
RemainingFree(u) ==
    IF IsSubscribed(u) THEN Infinite
    ELSE Finite(Max(0, FREE_REQUESTS_LIMIT - UsedRequests(u)))

\* save_food_analysis: the row it inserts; msg and analysis are history
\* fields (the pressed message and the analysis the data came from)
NewRow(u, fd, t, m) ==
    [user_id |-> u, food_name |-> fd.name, calories |-> fd.calories,
     proteins |-> fd.proteins, fats |-> fd.fats, carbs |-> fd.carbs,
     portion_weight |-> fd.portion_weight, analysis_date |-> t,
     meal_type |-> determine_meal_type(t), msg |-> m, analysis |-> fd.analysis]

(***************************************************************************)
(* Session store                                                           *)
(***************************************************************************)
\* telebot hands a message to the registered handlers only when its chat has
\* no next-step handler: that one takes the message instead
Delivered(u) == u \notin next_step_handlers

\* update_user_activity
update_user_activity(ud, u) ==
    Put(ud, u, Put(Get(ud, u, EmptyDict), "last_activity", now))

\* ResetAnalysis keeping no key of the record
ResetRecord(ud, u) ==
    IF u \in DOMAIN ud THEN Put(ud, u, EmptyDict) ELSE ud

\* the reset at the start of photo_handler, voice_handler and text_handler
ResetAnalysis(ud, u) ==
    IF u \in DOMAIN ud
    THEN Put(ud, u, Drop(ud[u], {k \in DOMAIN ud[u] : k = "food_data" \/ HasStatsPrefix(k)}))
    ELSE ud

\* user_data[user_id]['food_data'] = {...}; analysis is a history field:
\* the id of the message that shows the result
FoodData(res, m) ==
    [name |-> res.name, calories |-> res.calories, proteins |-> res.proteins,
     fats |-> res.fats, carbs |-> res.carbs, portion_weight |-> res.portion_weight,
     estimated |-> res.estimated, analysis |-> m]

\* what a result message shows of the data given to format_nutrition_result
Shown(fd) ==
    [name |-> fd.name, calories |-> fd.calories, proteins |-> fd.proteins,
     fats |-> fd.fats, carbs |-> fd.carbs, portion_weight |-> fd.portion_weight]

\* a result message: its recipient, its inline buttons, the data it shows
ResultMessage(u, buttons, fd) == [user |-> u, buttons |-> buttons, shown |-> Shown(fd)]

\* the inline keyboard of a result message
ResultButtons(op, res) ==
    {"add_stats", "specify_portion"} \cup
    (IF res.estimated /\ op # "text_handler" THEN {"specify_food"} ELSE {})

\* a callback query can arrive for any button the message has offered: a
\* press is delivered even when the keyboard has been edited meanwhile
Pressable(u, m, button) ==
    /\ m \in DOMAIN result_messages
    /\ result_messages[m].user = u
    /\ button \in result_messages[m].buttons

\* the common body of photo_handler, voice_handler and text_handler after
\* update_user_activity: reset, quota check, recognition, caching the result
Analyse(op, u, ud0, res, db_ok) ==
    LET ud1 == ResetAnalysis(ud0, u)
        m   == next_message_id
    IN  /\ Delivered(u)
        /\ next_message_id <= MaxMsg
        /\ next_message_id' = m + 1
        /\ UNCHANGED <<control, metrics_file, now, state, db_users, rows,
                       notification_cache, sent>>
        /\ IF ~db_ok
           THEN /\ user_data' = ud1
                /\ last_event' = Event(op, u, "subscription_check_failed")
                /\ UNCHANGED <<subs, result_messages, metrics>>
           ELSE /\ subs' = SubsAfterCheck(u)
                /\ IF ~IsSubscribed(u) /\ RemainingFree(u).n <= 0
                   THEN /\ user_data' = ud1
                        /\ last_event' = Event(op, u, "no_free_requests")
                        /\ UNCHANGED <<result_messages, metrics>>
                   ELSE IF res = NoFood
                   THEN /\ user_data' = ud1
                        /\ last_event' = Event(op, u, "no_food")
                        /\ UNCHANGED <<result_messages, metrics>>
                   ELSE /\ LockFree
                        /\ metrics' = TrackAnalysis(metrics, AnalysisCounter(op), u)
                        /\ user_data' = Put(ud1, u, Put(Get(ud1, u, EmptyDict),
                                                        "food_data", FoodData(res, m)))
                        /\ result_messages' = Put(result_messages, m,
                               ResultMessage(u, ResultButtons(op, res), res))
                        /\ last_event' = Event(op, u, "result")

photo_handler(u, res, db_ok) ==
    Analyse("photo_handler", u, update_user_activity(user_data, u), res, db_ok)

voice_handler(u, res, db_ok) ==
    Analyse("voice_handler", u, update_user_activity(user_data, u), res, db_ok)

\* text_handler receives the texts no state handler takes
text_handler(u, is_command, res, db_ok) ==
    /\ Delivered(u)
    /\ state[u] = "None"
    /\ IF is_command
       THEN /\ user_data' = update_user_activity(user_data, u)
            /\ last_event' = Event("text_handler", u, "help")
            /\ UNCHANGED <<control, monitoring, now, state, next_message_id, result_messages, db_users,
                           rows, subs, notification_cache, sent>>
       ELSE Analyse("text_handler", u, update_user_activity(user_data, u), res, db_ok)

\* add_stats_callback for a press on result message m of user u
add_stats_callback(u, m, db_ok) ==
    /\ Pressable(u, m, "add_stats")
    /\ UNCHANGED <<control, monitoring, now, state, next_message_id, result_messages, subs,
                   notification_cache, sent>>
    /\ IF u \notin DOMAIN user_data \/ "food_data" \notin DOMAIN user_data[u]
       THEN /\ last_event' = Event("add_stats_callback", u, "not_found")
            /\ UNCHANGED <<user_data, rows, db_users>>
       ELSE IF Get(user_data[u], StatsKey(m), FALSE)
       THEN /\ last_event' = Event("add_stats_callback", u, "already_added")
            /\ UNCHANGED <<user_data, rows, db_users>>
       ELSE IF ~db_ok
       THEN /\ last_event' = Event("add_stats_callback", u, "error")
            /\ UNCHANGED <<user_data, rows, db_users>>
       ELSE /\ Len(rows) < MaxRows
            /\ rows' = Append(rows, NewRow(u, user_data[u]["food_data"], now_msk, m))
            /\ db_users' = WithUser(db_users, u)
            /\ user_data' = Put(user_data, u,
                   Put(Put(user_data[u], "analysis_id", Len(rows) + 1), StatsKey(m), TRUE))
            /\ last_event' = Event("add_stats_callback", u, "added")

\* add_stats_callback on worker thread t, statement by statement.  First
\* step: the tests of food_data and of the added_to_stats_<message_id> flag,
\* and food_data = user_data[user_id]['food_data'].
add_stats_check(t, u, m) ==
    /\ workers[t].pc \in {"idle", "done"}
    /\ Pressable(u, m, "add_stats")
    /\ LET w == [IdleWorker EXCEPT !.user = u, !.message_id = m]
       IN  IF u \notin DOMAIN user_data \/ "food_data" \notin DOMAIN user_data[u]
           THEN workers' = [workers EXCEPT ![t] =
                               [w EXCEPT !.pc = "done", !.answer = "not_found"]]
           ELSE IF Get(user_data[u], StatsKey(m), FALSE)
           THEN workers' = [workers EXCEPT ![t] =
                               [w EXCEPT !.pc = "done", !.answer = "already_added"]]
           ELSE workers' = [workers EXCEPT ![t] =
                               [w EXCEPT !.pc = "save",
                                         !.food_data = user_data[u]["food_data"]]]
    /\ last_event' = EventN("add_stats_check", workers'[t].user, workers'[t].pc, t)
    /\ UNCHANGED <<janitor, fixer, next_step_handlers, reconciler, loops, retry, lock, tracking,
                   monitoring, now, user_data, state, next_message_id, result_messages,
                   db_users, rows, subs, notification_cache, sent>>

\* second step: analysis_time and DatabaseManager.save_food_analysis, which
\* returns the id of the new row, or raises
add_stats_save(t, db_ok) ==
    /\ workers[t].pc = "save"
    /\ IF ~db_ok
       THEN /\ workers' = [workers EXCEPT ![t].pc = "done", ![t].answer = "error"]
            /\ UNCHANGED <<rows, db_users>>
       ELSE /\ Len(rows) < MaxRows
            /\ rows' = Append(rows, NewRow(workers[t].user, workers[t].food_data,
                                           now_msk, workers[t].message_id))
            /\ db_users' = WithUser(db_users, workers[t].user)
            /\ workers' = [workers EXCEPT ![t].pc = "mark",
                                          ![t].analysis_id = Len(rows) + 1]
    /\ last_event' = EventN("add_stats_save", workers[t].user, workers'[t].pc, t)
    /\ UNCHANGED <<janitor, fixer, next_step_handlers, reconciler, loops, retry, lock, tracking,
                   monitoring, now, user_data, state, next_message_id, result_messages,
                   subs, notification_cache, sent>>

\* third step: user_data[user_id]['analysis_id'] = analysis_id and the flag;
\* a record that is gone by now raises KeyError
add_stats_mark(t) ==
    LET u == workers[t].user
    IN  /\ workers[t].pc = "mark"
        /\ IF u \in DOMAIN user_data
           THEN /\ user_data' = Put(user_data, u,
                       Put(Put(user_data[u], "analysis_id", workers[t].analysis_id),
                           StatsKey(workers[t].message_id), TRUE))
                /\ workers' = [workers EXCEPT ![t].pc = "done", ![t].answer = "added"]
           ELSE /\ workers' = [workers EXCEPT ![t].pc = "done", ![t].answer = "error"]
                /\ UNCHANGED user_data
        /\ last_event' = EventN("add_stats_mark", u, workers'[t].answer, t)
        /\ UNCHANGED <<janitor, fixer, next_step_handlers, reconciler, loops, retry, lock, tracking,
                       monitoring, now, state, next_message_id, result_messages,
                       db_users, rows, subs, notification_cache, sent>>

\* photo_handler on worker thread t, in the steps between which the janitor
\* thread can run.  First step: update_user_activity(user_id).
photo_touch(t, u) ==
    /\ workers[t].pc \in {"idle", "done"}
    /\ Delivered(u)
    /\ user_data' = update_user_activity(user_data, u)
    /\ workers' = [workers EXCEPT ![t] =
                      [IdleWorker EXCEPT !.pc = "reset", !.user = u, !.started = now]]
    /\ last_event' = EventN("photo_touch", u, "touched", t)
    /\ UNCHANGED <<next_step_handlers, reconciler, loops, retry, lock, tracking, fixer,
                   janitor, monitoring, now, state, next_message_id, result_messages,
                   db_users, rows, subs, notification_cache, sent>>

\* second step: if user_id in user_data, the record is replaced by its copy
\* without food_data and added_to_stats_*; then the subscription and quota
\* check
photo_reset(t) ==
    LET u == workers[t].user
    IN  /\ workers[t].pc = "reset"
        /\ user_data' = ResetAnalysis(user_data, u)
        /\ subs' = SubsAfterCheck(u)
        /\ IF ~IsSubscribed(u) /\ RemainingFree(u).n <= 0
           THEN workers' = [workers EXCEPT ![t].pc = "done",
                                           ![t].answer = "no_free_requests"]
           ELSE workers' = [workers EXCEPT ![t].pc = "store"]
        /\ last_event' = EventN("photo_reset", u, workers'[t].pc, t)
        /\ UNCHANGED <<next_step_handlers, reconciler, loops, retry, lock, tracking,
                       fixer, janitor, monitoring, now, state, next_message_id,
                       result_messages, db_users, rows, notification_cache, sent>>

\* third step, after the recognition: track_photo_analysis, if user_id not in
\* user_data: user_data[user_id] = {}, the store of food_data and the result
\* message
photo_store(t, res) ==
    LET u == workers[t].user
        m == next_message_id
    IN  /\ workers[t].pc = "store"
        /\ res # NoFood
        /\ next_message_id <= MaxMsg
        /\ next_message_id' = m + 1
        /\ LockFree
        /\ metrics' = TrackAnalysis(metrics, AnalysisCounter("photo_handler"), u)
        /\ user_data' = Put(user_data, u,
                            Put(Get(user_data, u, EmptyDict), "food_data", FoodData(res, m)))
        /\ result_messages' = Put(result_messages, m,
                                  ResultMessage(u, ResultButtons("photo_handler", res), res))
        /\ workers' = [workers EXCEPT ![t].pc = "done", ![t].answer = "result",
                                      ![t].message_id = m]
        /\ last_event' = EventN("photo_store", u, "result", t)
        /\ UNCHANGED <<next_step_handlers, reconciler, loops, retry, lock, tracking,
                       fixer, janitor, metrics_file, now, state, db_users, rows, subs,
                       notification_cache, sent>>

(***************************************************************************)
(* Janitor                                                                 *)
(***************************************************************************)
LastActivity(d) == Get(d, "last_activity", 0)

\* Expired with the operands of the subtraction swapped
ExpiredReversed(d, current_time) ==
    LastActivity(d) - current_time > USER_DATA_MAX_AGE

\* current_time - last_activity > USER_DATA_MAX_AGE
Expired(d, current_time) ==
    current_time - LastActivity(d) > USER_DATA_MAX_AGE

\* KeysToRemove without the age test of food_data
KeysToRemoveAnyFoodData(d) ==
    {k \in DOMAIN d : HasTempPrefix(k) \/ HasStatsPrefix(k) \/ k = "food_data"}

\* the keys one cycle removes from the record of a surviving user
KeysToRemove(d) ==
    {k \in DOMAIN d :
        \/ HasTempPrefix(k)
        \/ HasStatsPrefix(k)
        \/ /\ k = "food_data"
           /\ "timestamp" \in DOMAIN d[k]
           /\ now - d[k]["timestamp"] > FOOD_DATA_MAX_AGE}

\* a tenth instead of a fifth
ForceCountTenth(n) == n \div 10

\* int(len(sorted_users) * 0.2)
ForceCount(n) == (n * 2) \div 10

\* one iteration of the loop of cleanup_user_data
cleanup_user_data ==
    LET aged   == {u \in DOMAIN user_data : Expired(user_data[u], now)}
        kept   == [u \in (DOMAIN user_data) \ aged |->
                      Drop(user_data[u], KeysToRemove(user_data[u]))]
        n      == Cardinality(DOMAIN kept)
    IN  /\ loops["cleanup_user_data"] = "try"
        /\ IF n > USER_DATA_MAX_SIZE
           THEN \E S \in SUBSET (DOMAIN kept) :
                   /\ Cardinality(S) = ForceCount(n)
                   /\ \A a \in S, b \in (DOMAIN kept) \ S :
                          LastActivity(kept[a]) <= LastActivity(kept[b])
                   /\ user_data' = [u \in (DOMAIN kept) \ S |-> kept[u]]
                   /\ last_event' = EventN("cleanup_user_data", 0, "done",
                                           Cardinality(aged) + ForceCount(n))
           ELSE /\ user_data' = kept
                /\ last_event' = EventN("cleanup_user_data", 0, "done", Cardinality(aged))
        /\ UNCHANGED <<control, monitoring, now, state, next_message_id, result_messages, db_users,
                       rows, subs, notification_cache, sent>>

\* a cycle of cleanup_user_data in the two phases between which handler
\* threads can run.  First phase: current_time = time.time() and the scan,
\* which pops the keys to remove and collects users_to_remove.
janitor_scan ==
    LET aged == {u \in DOMAIN user_data : Expired(user_data[u], now)}
    IN  /\ loops["cleanup_user_data"] = "try"
        /\ janitor.pc = "sleep"
        /\ user_data' = [u \in DOMAIN user_data |->
                            IF u \in aged THEN user_data[u]
                            ELSE Drop(user_data[u], KeysToRemove(user_data[u]))]
        /\ janitor' = [pc |-> "remove", current_time |-> now, users_to_remove |-> aged]
        /\ last_event' = EventN("janitor_scan", 0, "scanned", Cardinality(aged))
        /\ UNCHANGED <<next_step_handlers, reconciler, loops, retry, lock, tracking,
                       workers, fixer, monitoring, now, state, next_message_id,
                       result_messages, db_users, rows, subs, notification_cache, sent>>

\* second phase: user_data.pop(user_id, None) for the users collected, then
\* the forced eviction
janitor_remove ==
    LET kept == [u \in (DOMAIN user_data) \ janitor.users_to_remove |-> user_data[u]]
        n    == Cardinality(DOMAIN kept)
    IN  /\ janitor.pc = "remove"
        /\ janitor' = IdleJanitor
        /\ IF n > USER_DATA_MAX_SIZE
           THEN \E S \in SUBSET (DOMAIN kept) :
                   /\ Cardinality(S) = ForceCount(n)
                   /\ \A a \in S, b \in (DOMAIN kept) \ S :
                          LastActivity(kept[a]) <= LastActivity(kept[b])
                   /\ user_data' = [u \in (DOMAIN kept) \ S |-> kept[u]]
           ELSE user_data' = kept
        /\ last_event' = EventN("janitor_remove", 0, "done",
                                Cardinality((DOMAIN user_data) \ DOMAIN user_data'))
        /\ UNCHANGED <<next_step_handlers, reconciler, loops, retry, lock, tracking,
                       workers, fixer, monitoring, now, state, next_message_id,
                       result_messages, db_users, rows, subs, notification_cache, sent>>

\* /cleanup, sent by an administrator
cleanup_command ==
    LET aged == {u \in DOMAIN user_data :
                    now - LastActivity(user_data[u]) > CLEANUP_COMMAND_MAX_AGE}
    IN  /\ user_data' = [u \in (DOMAIN user_data) \ aged |-> user_data[u]]
        /\ last_event' = EventN("cleanup_command", 0, "done", Cardinality(aged))
        /\ UNCHANGED <<control, monitoring, now, state, next_message_id, result_messages, db_users,
                       rows, subs, notification_cache, sent>>

(***************************************************************************)
(* Portion-size and food-name sub-flows                                    *)
(***************************************************************************)
\* x cut off after its first decimal
RoundChoicesDown(num, den) == {10 * (num \div (10 * den))}

\* round(x, 1) for x = num / den hundredths, den > 0: the nearest multiple of
\* 10.  Where x lies exactly half-way, the binary representation of the
\* float product decides the direction, so both neighbours are outcomes.
RoundChoices(num, den) ==
    LET q == num \div (10 * den)
        r == num % (10 * den)
    IN  IF 2 * r < 10 * den THEN {10 * q}
        ELSE IF 2 * r > 10 * den THEN {10 * (q + 1)}
        ELSE {10 * q, 10 * (q + 1)}

\* Recalc without food_data['portion_weight'] = portion_size
RecalcKeepPortion(fd, portion_size) ==
    LET old_portion == fd.portion_weight
    IN  { [fd EXCEPT !.calories = c[1], !.proteins = c[2], !.fats = c[3],
                     !.carbs = c[4]] :
          c \in RoundChoices(fd.calories * portion_size, old_portion) \X
                RoundChoices(fd.proteins * portion_size, old_portion) \X
                RoundChoices(fd.fats * portion_size, old_portion) \X
                RoundChoices(fd.carbs * portion_size, old_portion) }

\* handle_portion_size: the food_data after recalculation to portion_size
Recalc(fd, portion_size) ==
    LET old_portion == fd.portion_weight
    IN  { [fd EXCEPT !.calories = c[1], !.proteins = c[2], !.fats = c[3],
                     !.carbs = c[4], !.portion_weight = portion_size] :
          c \in RoundChoices(fd.calories * portion_size, old_portion) \X
                RoundChoices(fd.proteins * portion_size, old_portion) \X
                RoundChoices(fd.fats * portion_size, old_portion) \X
                RoundChoices(fd.carbs * portion_size, old_portion) }

specify_food_callback(u, m) ==
    /\ Pressable(u, m, "specify_food")
    /\ user_data' = Put(user_data, u, [message_id |-> m, last_photo_id |-> "None"])
    /\ state' = [state EXCEPT ![u] = "waiting_for_food_name"]
    /\ last_event' = Event("specify_food_callback", u, "prompt")
    /\ UNCHANGED <<control, monitoring, now, next_message_id, result_messages, db_users, rows, subs,
                   notification_cache, sent>>

specify_portion_callback(u, m) ==
    /\ Pressable(u, m, "specify_portion")
    /\ user_data' = Put(user_data, u, Put(Get(user_data, u, EmptyDict), "message_id", m))
    /\ state' = [state EXCEPT ![u] = "waiting_for_portion_size"]
    /\ last_event' = Event("specify_portion_callback", u, "prompt")
    /\ UNCHANGED <<control, monitoring, now, next_message_id, result_messages, db_users, rows, subs,
                   notification_cache, sent>>

\* the attributes of the class DatabaseManager: its static methods
DatabaseManagerAttributes ==
    {"get_user_profile", "calculate_daily_norms", "update_user_profile",
     "get_user_daily_norms", "get_or_create_user", "get_nutrition_stats_for_date",
     "save_food_analysis", "check_subscription_status", "add_subscription",
     "get_remaining_free_requests", "get_user_statistics",
     "get_earliest_analysis_date", "has_data_for_date", "get_database_health",
     "cleanup_old_data"}

\* the rows of user u with the latest analysis_date: what
\* order_by(analysis_date.desc()).first() can return
LatestRowsOf(R, u) ==
    {i \in DOMAIN R : /\ R[i].user_id = u
                      /\ \A j \in DOMAIN R : R[j].user_id = u
                                                => R[j].analysis_date <= R[i].analysis_date}

\* the row with the name and the macros of the lookup written over it
Overwritten(row, lookup) ==
    [row EXCEPT !.food_name = lookup.name, !.calories = lookup.calories,
                !.proteins = lookup.proteins, !.fats = lookup.fats,
                !.carbs = lookup.carbs]

\* the inner try block of handle_food_name: the tables it can leave.  It
\* starts with DatabaseManager.Session(), and Session is a module-level
\* name of db_manager, not an attribute of the class: the AttributeError is
\* caught as a non-critical error before any row is read.
UpdateLatestRow(R, U, u, lookup) ==
    IF "Session" \notin DatabaseManagerAttributes THEN {R}
    ELSE IF u \notin DOMAIN U \/ LatestRowsOf(R, u) = {} THEN {R}
    ELSE {[R EXCEPT ![i] = Overwritten(R[i], lookup)] : i \in LatestRowsOf(R, u)}

\* handle_food_name.  The typed name is the name the lookup answers with.
handle_food_name(u, tok, lookup, db_ok) ==
    /\ Delivered(u)
    /\ state[u] = "waiting_for_food_name"
    /\ state' = [state EXCEPT ![u] = "None"]
    /\ UNCHANGED <<control, monitoring, now, next_message_id, result_messages, db_users,
                   notification_cache, sent>>
    /\ IF IsCancel(tok)
       THEN /\ last_event' = Event("handle_food_name", u, "cancelled")
            /\ UNCHANGED <<user_data, subs, rows>>
       ELSE IF u \notin DOMAIN user_data \/ DOMAIN user_data[u] = {}
       THEN /\ last_event' = Event("handle_food_name", u, "error")
            /\ UNCHANGED <<user_data, subs, rows>>
       ELSE /\ user_data' = Drop(user_data, {u})
            /\ IF lookup = NoFood \/ lookup.estimated
               THEN /\ last_event' = Event("handle_food_name", u, "not_refined")
                    /\ UNCHANGED <<subs, rows>>
               ELSE IF ~db_ok
               THEN /\ last_event' = Event("handle_food_name", u, "error")
                    /\ UNCHANGED <<subs, rows>>
               ELSE /\ subs' = SubsAfterCheck(u)
                    /\ rows' \in UpdateLatestRow(rows, db_users, u, lookup)
                    /\ last_event' = Event("handle_food_name", u, "refined")

\* handle_portion_size.  The fallback for a missing food_data calls
\* bot.get_message, which TeleBot does not define: the AttributeError is
\* caught at line 1829 and the user is told the data was not found.
handle_portion_size(u, tok, db_ok) ==
    /\ Delivered(u)
    /\ state[u] = "waiting_for_portion_size"
    /\ UNCHANGED <<control, monitoring, now, db_users, rows, notification_cache, sent>>
    /\ IF IsCancel(tok)
       THEN /\ state' = [state EXCEPT ![u] = "None"]
            /\ last_event' = Event("handle_portion_size", u, "cancelled")
            /\ UNCHANGED <<user_data, next_message_id, result_messages, subs>>
       ELSE IF IsDigit(tok) /\ ~IntParses(tok)
       THEN /\ last_event' = Event("handle_portion_size", u, "ValueError")
            /\ UNCHANGED <<user_data, state, next_message_id, result_messages, subs>>
       ELSE IF ~IsDigit(tok) \/ tok.val <= 0
       THEN /\ last_event' = Event("handle_portion_size", u, "reprompt")
            /\ UNCHANGED <<user_data, state, next_message_id, result_messages, subs>>
       ELSE /\ next_message_id <= MaxMsg
            /\ next_message_id' = next_message_id + 1
            /\ state' = [state EXCEPT ![u] = "None"]
            /\ IF u \in DOMAIN user_data /\ "food_data" \in DOMAIN user_data[u]
               THEN \E fd \in Recalc(user_data[u]["food_data"], tok.val) :
                       /\ user_data' = Put(user_data, u, Put(user_data[u], "food_data", fd))
                       /\ IF db_ok
                          THEN /\ subs' = SubsAfterCheck(u)
                               /\ result_messages' = Put(result_messages, next_message_id,
                                      ResultMessage(u,
                                          IF Get(user_data[u], StatsKey(next_message_id), FALSE)
                                          THEN {} ELSE {"add_stats"},
                                          fd))
                               /\ last_event' = Event("handle_portion_size", u, "result")
                          ELSE /\ last_event' = Event("handle_portion_size", u, "error")
                               /\ UNCHANGED <<subs, result_messages>>
               ELSE /\ last_event' = Event("handle_portion_size", u, "not_found")
                    /\ UNCHANGED <<user_data, subs, result_messages>>

(***************************************************************************)
(* Profile wizard                                                          *)
(***************************************************************************)
Genders == {"male", "female"}

\* activity factors in thousandths (activity_1.2 ... activity_1.9)
Activities == {1200, 1375, 1550, 1725, 1900}

Goals == {"weight_loss", "maintenance", "weight_gain"}

\* ProfileKeys without the height
ProfileKeysWithoutHeight == {"gender", "age", "weight", "activity_level", "goal"}

\* the keys goal_callback reads from the session record
ProfileKeys == {"gender", "age", "weight", "height", "activity_level", "goal"}

\* /start: get_or_create_user, then the subscription status for the greeting
start(u) ==
    /\ Delivered(u)
    /\ db_users' = WithUser(db_users, u)
    /\ subs' = DeactivateAll(subs, ExpiredOf(subs, u, now_msk))
    /\ last_event' = Event("start", u, "welcome")
    /\ UNCHANGED <<control, monitoring, now, user_data, state, next_message_id, result_messages, rows,
                   notification_cache, sent>>

SetupData == {"setup_profile", "setup_manual_norms"}

\* setup_callback: setup_profile asks for the gender and sets no state;
\* setup_manual_norms asks for the four numbers and registers
\* process_manual_norms as the next-step handler of the chat.  A second
\* registration makes the handler run twice on the same message, to the
\* same effect, so a set of chats is kept.
setup_callback(u, data) ==
    /\ IF data = "setup_profile"
       THEN /\ last_event' = Event("setup_callback", u, "ask_gender")
            /\ UNCHANGED next_step_handlers
       ELSE /\ last_event' = Event("setup_callback", u, "ask_norms")
            /\ next_step_handlers' = next_step_handlers \cup {u}
    /\ UNCHANGED <<janitor, fixer, workers, reconciler, loops, retry, lock, tracking, monitoring, now, user_data, state, next_message_id, result_messages,
                   db_users, rows, subs, notification_cache, sent>>

gender_callback(u, gender) ==
    /\ user_data' = Put(user_data, u, Put(Get(user_data, u, EmptyDict), "gender", gender))
    /\ state' = [state EXCEPT ![u] = "waiting_for_age"]
    /\ last_event' = Event("gender_callback", u, "ask_age")
    /\ UNCHANGED <<control, monitoring, now, next_message_id, result_messages, db_users, rows, subs,
                   notification_cache, sent>>

\* the try block of process_age: int(age_text) parses and 12 <= age <= 100
AgeAccepted(t) == IntParses(t) /\ ~(t.val < AGE_MIN \/ t.val > AGE_MAX)

\* the try block of process_weight
WeightAccepted(t) ==
    /\ FloatParses(t)
    /\ ~(FloatLess(FloatOf(t), Float(WEIGHT_MIN)) \/ FloatLess(Float(WEIGHT_MAX), FloatOf(t)))

\* the try block of process_height
HeightAccepted(t) ==
    /\ FloatParses(t)
    /\ ~(FloatLess(FloatOf(t), Float(HEIGHT_MIN)) \/ FloatLess(Float(HEIGHT_MAX), FloatOf(t)))

\* A numeric step of the wizard: store the value under key, then build the
\* next prompt from the keys in needs, then move to the state next.  A
\* missing record or key raises KeyError, which ends the handler there.
WizardStep(op, u, accepted, key, value, needs, next) ==
    /\ Delivered(u)
    /\ UNCHANGED <<control, monitoring, now, next_message_id, result_messages, db_users, rows, subs,
                   notification_cache, sent>>
    /\ IF ~accepted
       THEN /\ last_event' = Event(op, u, "reprompt")
            /\ UNCHANGED <<user_data, state>>
       ELSE IF u \notin DOMAIN user_data
       THEN /\ last_event' = Event(op, u, "KeyError")
            /\ UNCHANGED <<user_data, state>>
       ELSE /\ user_data' = Put(user_data, u, Put(user_data[u], key, value))
            /\ IF needs \subseteq DOMAIN user_data[u]
               THEN /\ state' = [state EXCEPT ![u] = next]
                    /\ last_event' = Event(op, u, "accepted")
               ELSE /\ last_event' = Event(op, u, "KeyError")
                    /\ UNCHANGED state

process_age(u, tok) ==
    /\ state[u] = "waiting_for_age"
    /\ WizardStep("process_age", u, AgeAccepted(tok), "age", tok.val,
                  {"gender"}, "waiting_for_weight")

process_weight(u, tok) ==
    /\ state[u] = "waiting_for_weight"
    /\ WizardStep("process_weight", u, WeightAccepted(tok), "weight", FloatOf(tok),
                  {"gender", "age"}, "waiting_for_height")

process_height(u, tok) ==
    /\ state[u] = "waiting_for_height"
    /\ WizardStep("process_height", u, HeightAccepted(tok), "height", FloatOf(tok),
                  {}, "None")

activity_callback(u, activity_level) ==
    /\ UNCHANGED <<control, monitoring, now, state, next_message_id, result_messages, db_users, rows,
                   subs, notification_cache, sent>>
    /\ IF u \notin DOMAIN user_data
       THEN /\ last_event' = Event("activity_callback", u, "KeyError")
            /\ UNCHANGED user_data
       ELSE /\ user_data' = Put(user_data, u,
                                Put(user_data[u], "activity_level", activity_level))
            /\ last_event' = Event("activity_callback", u, "ask_goal")

\* update_user_profile(user_id, gender=..., ..., goal=...): the columns set
ProfileOf(d) == [k \in ProfileKeys |-> d[k]]

NormKeys == <<"daily_calories", "daily_proteins", "daily_fats", "daily_carbs">>

\* the dict of the four norms; norms is the sequence of the four values
NormsDict(norms) ==
    [k \in {NormKeys[i] : i \in 1..4} |-> norms[CHOOSE i \in 1..4 : NormKeys[i] = k]]

\* for field, value in kwargs.items(): setattr(user, field, value)
SetColumns(row, kwargs) ==
    [k \in (DOMAIN row) \cup (DOMAIN kwargs) |->
        IF k \in DOMAIN kwargs THEN kwargs[k] ELSE row[k]]

\* user.daily_calories = norms['daily_calories'], ...
WithNorms(row, norms) == SetColumns(row, NormsDict(norms))

\* Bmr with the male constant for every gender
BmrMale(gender, age, weight, height) ==
    40 * weight + 25 * height - 20 * age + 20

\* calculate_daily_norms: 10 * weight + 6.25 * height - 5 * age + 5 (male)
\* or - 161 (female), in quarters
Bmr(gender, age, weight, height) ==
    40 * weight + 25 * height - 20 * age + (IF gender = "male" THEN 20 ELSE 0 - 644)

\* daily_calories *= 0.8 (weight_loss), 1.15 (weight_gain), in twentieths
GoalFactor(goal) ==
    IF goal = "weight_loss" THEN 16 ELSE IF goal = "weight_gain" THEN 23 ELSE 20

\* protein_ratio, fat_ratio, carb_ratio, in twentieths
GoalRatios(goal) ==
    IF goal = "weight_loss" THEN <<7, 6, 7>>
    ELSE IF goal = "weight_gain" THEN <<6, 5, 9>>
    ELSE <<6, 6, 8>>

\* calculate_daily_norms: the dicts it can return, as sequences in the order
\* of NormKeys.  The activity factors are multiples of 0.025, so
\* daily_calories = bmr * activity_level * factor is num / 3200, that is
\* num / 32 hundredths; the macros divide its share by 4, 9 and 4 kcal per
\* gram; each value is rounded to one decimal.  A nan weight or height makes
\* all four nan.
calculate_daily_norms(gender, age, weight, height, activity_level, goal) ==
    IF weight.nan \/ height.nan THEN {<<NaN, NaN, NaN, NaN>>}
    ELSE LET num == Bmr(gender, age, weight.v, height.v) * (activity_level \div 25)
                        * GoalFactor(goal)
             den == 32
             r   == GoalRatios(goal)
         IN  { <<Float(c[1]), Float(c[2]), Float(c[3]), Float(c[4])>> :
               c \in RoundChoices(num, den) \X
                     RoundChoices(num * r[1], den * 20 * 4) \X
                     RoundChoices(num * r[2], den * 20 * 9) \X
                     RoundChoices(num * r[3], den * 20 * 4) }

\* the columns calculate_daily_norms needs: a column never set is None
NormColumns == {"gender", "age", "weight", "height", "activity_level"}

\* update_user_profile for a user that has the row: the rows it can commit.
\* The values the wizard and the manual entry store are all truthy.
update_user_profile(row, kwargs) ==
    LET user == SetColumns(row, kwargs)
    IN  IF NormColumns \subseteq DOMAIN user /\ "daily_calories" \notin DOMAIN kwargs
        THEN { WithNorms(user, norms) :
               norms \in calculate_daily_norms(user["gender"], user["age"],
                             user["weight"], user["height"], user["activity_level"],
                             Get(user, "goal", "maintenance")) }
        ELSE {user}

goal_callback(u, goal, db_ok) ==
    /\ UNCHANGED <<control, monitoring, now, state, next_message_id, result_messages, rows, subs,
                   notification_cache, sent>>
    /\ IF u \notin DOMAIN user_data
       THEN /\ last_event' = Event("goal_callback", u, "KeyError")
            /\ UNCHANGED <<user_data, db_users>>
       ELSE LET d == Put(user_data[u], "goal", goal)
            IN  IF ~(ProfileKeys \subseteq DOMAIN d)
                THEN /\ user_data' = Put(user_data, u, d)
                     /\ last_event' = Event("goal_callback", u, "KeyError")
                     /\ UNCHANGED db_users
                ELSE IF ~db_ok
                THEN /\ user_data' = Put(user_data, u, d)
                     /\ last_event' = Event("goal_callback", u, "error")
                     /\ UNCHANGED db_users
                ELSE IF u \notin DOMAIN db_users
                THEN /\ user_data' = Put(user_data, u, d)
                     /\ last_event' = Event("goal_callback", u, "update_failed")
                     /\ UNCHANGED db_users
                ELSE \E user \in update_user_profile(db_users[u], ProfileOf(d)) :
                        /\ db_users' = Put(db_users, u, user)
                        /\ user_data' = Drop(user_data, {u})
                        /\ last_event' = Event("goal_callback", u, "profile_saved")

(***************************************************************************)
(* Manual norms: the one-shot next-step handler                            *)
(***************************************************************************)
\* not (x < lo or x > hi), as the range tests of process_manual_norms
NotOutside(x, lo, hi) == ~(FloatLess(x, Float(lo)) \/ FloatLess(Float(hi), x))

\* the try block of process_manual_norms: values is message.text.strip()
\* .split(), a sequence of tokens
ManualNormsAccepted(values) ==
    /\ Len(values) = 4
    /\ \A i \in 1..4 : FloatParses(values[i])
    /\ NotOutside(FloatOf(values[1]), CALORIES_MIN, CALORIES_MAX)
    /\ NotOutside(FloatOf(values[2]), PROTEINS_MIN, PROTEINS_MAX)
    /\ NotOutside(FloatOf(values[3]), FATS_MIN, FATS_MAX)
    /\ NotOutside(FloatOf(values[4]), CARBS_MIN, CARBS_MAX)

\* process_manual_norms: telebot pops the handler before it runs it.  An
\* exception of update_user_profile is not caught by the handler.
process_manual_norms(u, values, db_ok) ==
    /\ u \in next_step_handlers
    /\ next_step_handlers' = next_step_handlers \ {u}
    /\ UNCHANGED <<janitor, fixer, workers, reconciler, loops, retry, lock, tracking, monitoring, now, user_data, state, next_message_id, result_messages, rows,
                   subs, notification_cache, sent>>
    /\ IF ~ManualNormsAccepted(values)
       THEN /\ last_event' = Event("process_manual_norms", u, "error")
            /\ UNCHANGED db_users
       ELSE IF ~db_ok
       THEN /\ last_event' = Event("process_manual_norms", u, "exception")
            /\ UNCHANGED db_users
       ELSE IF u \notin DOMAIN db_users
       THEN /\ last_event' = Event("process_manual_norms", u, "update_failed")
            /\ UNCHANGED db_users
       ELSE \E user \in update_user_profile(db_users[u],
                             NormsDict([i \in 1..4 |-> FloatOf(values[i])])) :
               /\ db_users' = Put(db_users, u, user)
               /\ last_event' = Event("process_manual_norms", u, "norms_saved")

(***************************************************************************)
(* Subscriptions and the reconciler                                        *)
(***************************************************************************)
Months == {1}

\* add_subscription: the record it inserts (is_active defaults to True)
NewSubscription(u, months) ==
    [user_id |-> u, start_date |-> now,
     end_date |-> now + DAYS_PER_MONTH * months * SECONDS_PER_DAY,
     is_active |-> TRUE]

add_subscription(op, u, months, db_ok) ==
    /\ Len(subs) < MaxSubs
    /\ UNCHANGED <<control, now, user_data, state, next_message_id, result_messages, rows,
                   notification_cache, sent>>
    /\ IF db_ok
       THEN /\ db_users' = WithUser(db_users, u)
            /\ subs' = Append(subs, NewSubscription(u, months))
            /\ last_event' = Event(op, u, "subscribed")
       ELSE /\ last_event' = Event(op, u, "error")
            /\ UNCHANGED <<db_users, subs>>

\* the successful_payment update of Telegram: after add_subscription it
\* counts the purchase and saves the metrics
process_successful_payment(u, months, db_ok) ==
    /\ add_subscription("process_successful_payment", u, months, db_ok)
    /\ IF db_ok
       THEN /\ LockFree
            /\ metrics' = TrackPurchase(metrics)
            /\ metrics_file' \in Serialised(metrics')
       ELSE UNCHANGED monitoring

\* the payment provider's webhook
payment_notification(u, months, db_ok) ==
    /\ add_subscription("payment_notification", u, months, db_ok)
    /\ UNCHANGED monitoring

\* DatabaseManager.check_subscription_status(u), as /subscription and the
\* handlers call it
check_subscription_status(u) ==
    /\ subs' = SubsAfterCheck(u)
    /\ last_event' = Event("check_subscription_status", u,
                           IF IsSubscribed(u) THEN "True" ELSE "False")
    /\ UNCHANGED <<control, monitoring, now, user_data, state, next_message_id, result_messages,
                   db_users, rows, notification_cache, sent>>

\* DatabaseManager.get_remaining_free_requests(u)
get_remaining_free_requests(u) ==
    /\ subs' = SubsAfterCheck(u)
    /\ last_event' = EventN("get_remaining_free_requests", u,
                            IF RemainingFree(u).inf THEN "inf" ELSE "finite",
                            RemainingFree(u).n)
    /\ UNCHANGED <<control, monitoring, now, user_data, state, next_message_id, result_messages,
                   db_users, rows, notification_cache, sent>>

\* DatabaseManager.save_food_analysis(u, ...) with analysis_time given
save_food_analysis(u, res) ==
    /\ Len(rows) < MaxRows
    /\ rows' = Append(rows, NewRow(u, FoodData(res, 0), now_msk, 0))
    /\ db_users' = WithUser(db_users, u)
    /\ last_event' = EventN("save_food_analysis", u, "saved", Len(rows) + 1)
    /\ UNCHANGED <<control, monitoring, now, user_data, state, next_message_id, result_messages, subs,
                   notification_cache, sent>>

\* a query that finds no subscription
ExpiredSubscriptionsNone(S, t) == {}

\* the subscriptions a reconciler cycle finds: active and expired
ExpiredSubscriptions(S, t) == {i \in DOMAIN S : S[i].is_active /\ S[i].end_date <= t}

\* a set of row ids in query order
RECURSIVE InOrder(_)
InOrder(I) ==
    IF I = {} THEN <<>>
    ELSE LET i == CHOOSE x \in I : \A y \in I : x <= y
         IN  <<i>> \o InOrder(I \ {i})

\* NotifyDue with >= 82800
NotifyDueInclusive(current_time, last_notification) ==
    current_time - last_notification >= NOTIFY_INTERVAL

\* current_time - last_notification > 82800
NotifyDue(current_time, last_notification) ==
    current_time - last_notification > NOTIFY_INTERVAL

\* the notification loop over the expired subscriptions: returns the cache
\* and the messages delivered; send_ok[i] tells whether bot.send_message for
\* subscription i succeeds (an exception is caught per subscription)
RECURSIVE Notify(_, _, _, _)
Notify(order, cache, out, send_ok) ==
    IF order = <<>> THEN [cache |-> cache, out |-> out]
    ELSE LET i   == Head(order)
             uid == subs[i].user_id
         IN  IF NotifyDue(now, Get(cache, uid, 0)) /\ send_ok[i]
             THEN Notify(Tail(order), Put(cache, uid, now),
                         Append(out, [user |-> uid, time |-> now, sub |-> i]), send_ok)
             ELSE Notify(Tail(order), cache, out, send_ok)

\* the purge at the end of a cycle
PurgeCache(cache) ==
    [u \in {x \in DOMAIN cache : now - cache[x] < NOTIFY_CACHE_HORIZON} |-> cache[u]]

\* one call of cleanup_expired_subscriptions (a cycle of cleanup_worker)
cleanup_expired_subscriptions(send_ok, db_ok) ==
    LET expired == ExpiredSubscriptions(subs, now_msk)
        result  == Notify(InOrder(expired), notification_cache, <<>>, send_ok)
    IN  /\ loops["cleanup_worker"] = "try"
        /\ UNCHANGED <<control, monitoring, now, user_data, state, next_message_id, result_messages,
                       db_users, rows>>
        /\ IF ~db_ok
           THEN /\ last_event' = Event("cleanup_expired_subscriptions", 0, "error")
                /\ UNCHANGED <<subs, notification_cache, sent>>
           ELSE IF expired = {}
           THEN /\ last_event' = Event("cleanup_expired_subscriptions", 0, "nothing")
                /\ UNCHANGED <<subs, notification_cache, sent>>
           ELSE /\ subs' = DeactivateAll(subs, expired)
                /\ notification_cache' = PurgeCache(result.cache)
                /\ sent' = sent \o result.out
                /\ last_event' = EventN("cleanup_expired_subscriptions", 0, "done",
                                        Len(result.out))

(***************************************************************************)
(* The reconciler thread, statement by statement: other threads run        *)
(* between the commit of the deactivation and each notification            *)
(***************************************************************************)
\* DeactivateAll that leaves is_active as it is
DeactivateNone(S, I) == S

\* for subscription in expired_subscriptions: subscription.is_active = False,
\* then session.commit(): the table after the transaction
CommitDeactivation(S, I) == DeactivateAll(S, I)

Sleeping == [pc |-> "sleep", expired_subscriptions |-> <<>>, current_time |-> 0]

\* from the query to session.commit() and current_time = time.time()
reconciler_commit(db_ok) ==
    LET expired == ExpiredSubscriptions(subs, now_msk)
    IN  /\ loops["cleanup_worker"] = "try"
        /\ reconciler.pc = "sleep"
        /\ UNCHANGED <<janitor, fixer, workers, next_step_handlers, loops, retry, lock, tracking, monitoring, now, user_data, state, next_message_id,
                       result_messages, db_users, rows, notification_cache, sent>>
        /\ IF ~db_ok
           THEN /\ last_event' = Event("reconciler_commit", 0, "error")
                /\ UNCHANGED <<janitor, fixer, workers, subs, reconciler>>
           ELSE IF expired = {}
           THEN /\ last_event' = Event("reconciler_commit", 0, "nothing")
                /\ UNCHANGED <<janitor, fixer, workers, subs, reconciler>>
           ELSE /\ subs' = CommitDeactivation(subs, expired)
                /\ reconciler' = [pc |-> "notify",
                                  expired_subscriptions |-> InOrder(expired),
                                  current_time |-> now]
                /\ last_event' = EventN("reconciler_commit", 0, "committed",
                                        Cardinality(expired))

\* one iteration of the notification loop
reconciler_notify(send_ok) ==
    LET i   == Head(reconciler.expired_subscriptions)
        uid == subs[i].user_id
        t   == reconciler.current_time
    IN  /\ reconciler.pc = "notify"
        /\ reconciler.expired_subscriptions # <<>>
        /\ reconciler' = [reconciler EXCEPT
                             !.expired_subscriptions = Tail(reconciler.expired_subscriptions)]
        /\ UNCHANGED <<janitor, fixer, workers, next_step_handlers, loops, retry, lock, tracking, monitoring, now, user_data, state, next_message_id,
                       result_messages, db_users, rows, subs>>
        /\ IF ~NotifyDue(t, Get(notification_cache, uid, 0))
           THEN /\ last_event' = Event("reconciler_notify", uid, "skipped")
                /\ UNCHANGED <<notification_cache, sent>>
           ELSE IF ~send_ok
           THEN /\ last_event' = Event("reconciler_notify", uid, "send_failed")
                /\ UNCHANGED <<notification_cache, sent>>
           ELSE /\ sent' = Append(sent, [user |-> uid, time |-> t, sub |-> i])
                /\ notification_cache' = Put(notification_cache, uid, t)
                /\ last_event' = Event("reconciler_notify", uid, "sent")

\* the purge of the cache after the loop; the thread then sleeps
reconciler_purge ==
    /\ reconciler.pc = "notify"
    /\ reconciler.expired_subscriptions = <<>>
    /\ notification_cache' =
          [u \in {x \in DOMAIN notification_cache :
                     reconciler.current_time - notification_cache[x] < NOTIFY_CACHE_HORIZON}
              |-> notification_cache[u]]
    /\ reconciler' = Sleeping
    /\ last_event' = Event("reconciler_purge", 0, "done")
    /\ UNCHANGED <<janitor, fixer, workers, next_step_handlers, loops, retry, lock, tracking, monitoring, now, user_data, state, next_message_id,
                   result_messages, db_users, rows, subs, sent>>

(***************************************************************************)
(* /fix_subscriptions: an administrator's handler thread runs               *)
(* cleanup_expired_subscriptions while the reconciler thread may be inside  *)
(* it too; each thread has its own database session                         *)
(***************************************************************************)
\* the query for the active subscriptions with end_date <= now_msk
fix_query ==
    LET expired == ExpiredSubscriptions(subs, now_msk)
    IN  /\ fixer.pc = "idle"
        /\ IF expired = {}
           THEN /\ UNCHANGED fixer
                /\ last_event' = Event("fix_subscriptions_command", 0, "nothing")
           ELSE /\ fixer' = [fixer EXCEPT !.pc = "commit",
                                          !.expired_subscriptions = InOrder(expired)]
                /\ last_event' = EventN("fix_subscriptions_command", 0, "queried",
                                        Cardinality(expired))
        /\ UNCHANGED <<janitor, next_step_handlers, reconciler, loops, retry, lock, tracking,
                       workers, monitoring, now, user_data, state, next_message_id,
                       result_messages, db_users, rows, subs, notification_cache, sent>>

\* subscription.is_active = False for the rows found, session.commit(), and
\* current_time = time.time()
fix_commit ==
    /\ fixer.pc = "commit"
    /\ subs' = CommitDeactivation(subs, {fixer.expired_subscriptions[k] :
                                            k \in DOMAIN fixer.expired_subscriptions})
    /\ fixer' = [fixer EXCEPT !.pc = "check", !.current_time = now]
    /\ last_event' = Event("fix_subscriptions_command", 0, "committed")
    /\ UNCHANGED <<janitor, next_step_handlers, reconciler, loops, retry, lock, tracking,
                   workers, monitoring, now, user_data, state, next_message_id,
                   result_messages, db_users, rows, notification_cache, sent>>

\* last_notification = notification_cache.get(user_id, 0) and the test of
\* the 23 hours for the first subscription left
fix_check ==
    LET i   == Head(fixer.expired_subscriptions)
        uid == subs[i].user_id
    IN  /\ fixer.pc = "check"
        /\ fixer.expired_subscriptions # <<>>
        /\ IF NotifyDue(fixer.current_time, Get(notification_cache, uid, 0))
           THEN /\ fixer' = [fixer EXCEPT !.pc = "send"]
                /\ last_event' = Event("fix_subscriptions_command", uid, "due")
           ELSE /\ fixer' = [fixer EXCEPT !.expired_subscriptions =
                                              Tail(fixer.expired_subscriptions)]
                /\ last_event' = Event("fix_subscriptions_command", uid, "skipped")
        /\ UNCHANGED <<janitor, next_step_handlers, reconciler, loops, retry, lock, tracking,
                       workers, monitoring, now, user_data, state, next_message_id,
                       result_messages, db_users, rows, subs, notification_cache, sent>>

\* bot.send_message and notification_cache[user_id] = current_time; a send
\* that raises is caught per subscription
fix_send(send_ok) ==
    LET i   == Head(fixer.expired_subscriptions)
        uid == subs[i].user_id
        t   == fixer.current_time
    IN  /\ fixer.pc = "send"
        /\ fixer' = [fixer EXCEPT !.pc = "check",
                                  !.expired_subscriptions = Tail(fixer.expired_subscriptions)]
        /\ IF send_ok
           THEN /\ sent' = Append(sent, [user |-> uid, time |-> t, sub |-> i])
                /\ notification_cache' = Put(notification_cache, uid, t)
                /\ last_event' = Event("fix_subscriptions_command", uid, "sent")
           ELSE /\ UNCHANGED <<notification_cache, sent>>
                /\ last_event' = Event("fix_subscriptions_command", uid, "send_failed")
        /\ UNCHANGED <<janitor, next_step_handlers, reconciler, loops, retry, lock, tracking,
                       workers, monitoring, now, user_data, state, next_message_id,
                       result_messages, db_users, rows, subs>>

\* the dict comprehension over notification_cache.items() after the loop
fix_rebuild ==
    /\ fixer.pc = "check"
    /\ fixer.expired_subscriptions = <<>>
    /\ fixer' = [fixer EXCEPT
                    !.pc = "assign",
                    !.cache = [u \in {x \in DOMAIN notification_cache :
                                         fixer.current_time - notification_cache[x]
                                             < NOTIFY_CACHE_HORIZON}
                                 |-> notification_cache[u]]]
    /\ last_event' = Event("fix_subscriptions_command", 0, "rebuilt")
    /\ UNCHANGED <<janitor, next_step_handlers, reconciler, loops, retry, lock, tracking,
                   workers, monitoring, now, user_data, state, next_message_id,
                   result_messages, db_users, rows, subs, notification_cache, sent>>

\* notification_cache = <the new dict>: the global is bound to it
fix_assign ==
    /\ fixer.pc = "assign"
    /\ notification_cache' = fixer.cache
    /\ fixer' = IdleFixer
    /\ last_event' = Event("fix_subscriptions_command", 0, "done")
    /\ UNCHANGED <<janitor, next_step_handlers, reconciler, loops, retry, lock, tracking,
                   workers, monitoring, now, user_data, state, next_message_id,
                   result_messages, db_users, rows, subs, sent>>

(***************************************************************************)
(* The background loops: while True: try: <cycle> except Exception: log    *)
(***************************************************************************)
\* what a cycle can raise: a database error, a failed send, a dict that
\* changed size while sorted() iterated over it
ExceptionKinds == {"OperationalError", "ApiTelegramException", "RuntimeError"}

\* an except clause that catches nothing
CaughtNever(kind) == FALSE

\* except Exception as e: every kind above is a subclass of Exception
Caught(kind) == kind \in ExceptionKinds

\* where a loop stands after its cycle raised: in the except clause of the
\* loop body, or ended by the exception
AfterRaise(l, kind) ==
    [loops EXCEPT ![l] = IF Caught(kind) THEN "except" ELSE "terminated"]

\* a janitor cycle that raises outside the per-user try: before the scan
\* (nothing is changed), or after the scan and the age-based eviction, at
\* sorted() of the forced eviction or a statement before it
cleanup_user_data_raises(kind, evicted) ==
    LET aged == {u \in DOMAIN user_data : Expired(user_data[u], now)}
        kept == [u \in (DOMAIN user_data) \ aged |->
                    Drop(user_data[u], KeysToRemove(user_data[u]))]
    IN  /\ loops["cleanup_user_data"] = "try"
        /\ user_data' = IF evicted THEN kept ELSE user_data
        /\ loops' = AfterRaise("cleanup_user_data", kind)
        /\ last_event' = Event("cleanup_user_data", 0, kind)
        /\ UNCHANGED <<janitor, fixer, workers, next_step_handlers, reconciler, retry, lock, tracking, monitoring, now, state, next_message_id,
                       result_messages, db_users, rows, subs, notification_cache, sent>>

\* a cycle of cleanup_worker in which an exception leaves
\* cleanup_expired_subscriptions (its own handler has raised)
cleanup_worker_raises(kind) ==
    /\ loops["cleanup_worker"] = "try"
    /\ reconciler.pc = "sleep"
    /\ loops' = AfterRaise("cleanup_worker", kind)
    /\ last_event' = Event("cleanup_worker", 0, kind)
    /\ UNCHANGED <<janitor, fixer, workers, next_step_handlers, reconciler, retry, lock, tracking, monitoring, now, user_data, state,
                   next_message_id, result_messages, db_users, rows, subs,
                   notification_cache, sent>>

\* a cycle of save_periodically: save_metrics catches its own errors and
\* returns (raises = FALSE), or an exception leaves it
save_periodically(raises, kind) ==
    /\ loops["save_periodically"] = "try"
    /\ IF raises
       THEN /\ loops' = AfterRaise("save_periodically", kind)
            /\ last_event' = Event("save_periodically", 0, kind)
            /\ UNCHANGED metrics_file
       ELSE /\ LockFree
            /\ UNCHANGED loops
            /\ \/ /\ metrics_file' \in Serialised(metrics)
                  /\ last_event' = Event("save_periodically", 0, "saved")
               \/ /\ UNCHANGED metrics_file
                  /\ last_event' = Event("save_periodically", 0, "save_failed")
    /\ UNCHANGED <<janitor, fixer, workers, next_step_handlers, reconciler, retry, lock, tracking, metrics, now, user_data, state,
                   next_message_id, result_messages, db_users, rows, subs,
                   notification_cache, sent>>

\* the except clause has logged the error (cleanup_worker also sleeps 60 s):
\* the loop goes on to its next iteration
loop_continues(l) ==
    /\ loops[l] = "except"
    /\ loops' = [loops EXCEPT ![l] = "try"]
    /\ last_event' = Event(l, 0, "logged")
    /\ UNCHANGED <<janitor, fixer, workers, next_step_handlers, reconciler, retry, lock, tracking, monitoring, now, user_data, state,
                   next_message_id, result_messages, db_users, rows, subs,
                   notification_cache, sent>>

(***************************************************************************)
(* db_retry: the wrapper around the DatabaseManager methods                *)
(***************************************************************************)
\* the exception classes the wrapper tells apart; Exception stands for every
\* class other than OperationalError and IntegrityError
ErrorClasses == {"OperationalError", "IntegrityError", "Exception"}

\* the keywords looked for in str(e).lower()
RetryKeywords == {"database is locked", "connection", "timeout", "deadlock",
                  "serialization failure"}

\* what a message can contain: one of the keywords, or none of them
Errors == [class : ErrorClasses, keyword : RetryKeywords \cup {"none"}]

NoError == [class |-> "none", keyword |-> "none"]

\* Retryable for every error
RetryableAlways(e) == TRUE

\* except (OperationalError, IntegrityError) and any(keyword in error_msg ...)
Retryable(e) ==
    /\ e.class \in {"OperationalError", "IntegrityError"}
    /\ e.keyword \in RetryKeywords

\* 2 ** attempt
RECURSIVE Pow2(_)
Pow2(n) == IF n = 0 THEN 1 ELSE 2 * Pow2(n - 1)

\* the methods called through the wrapper here
WrappedFunctions == {"get_or_create_user", "add_subscription"}

\* wrapper(*args, **kwargs) is called: for attempt in range(max_retries)
wrapper_call(func, u) ==
    /\ retry.pc = "idle"
    /\ retry' = [pc |-> "try", func |-> func, user |-> u, attempt |-> 0,
                 invocations |-> 0, last |-> NoError, slept |-> 0,
                 caller |-> NoCaller]
    /\ last_event' = Event(func, u, "called")
    /\ UNCHANGED <<janitor, fixer, workers, next_step_handlers, reconciler, loops, lock, tracking, monitoring, now, user_data, state,
                   next_message_id, result_messages, db_users, rows, subs,
                   notification_cache, sent>>

\* return func(*args, **kwargs): the invocation commits and returns
wrapper_invoke_returns ==
    LET u == retry.user
    IN  /\ retry.pc = "try"
        /\ retry.attempt < MAX_RETRIES
        /\ retry' = [retry EXCEPT !.pc = "returned",
                                  !.invocations = retry.invocations + 1,
                                  !.last = NoError]
        /\ db_users' = WithUser(db_users, u)
        /\ IF retry.func = "add_subscription"
           THEN /\ Len(subs) < MaxSubs
                /\ subs' = Append(subs, NewSubscription(u, 1))
           ELSE UNCHANGED subs
        /\ last_event' = EventN(retry.func, u, "returned", retry.invocations + 1)
        /\ UNCHANGED <<janitor, fixer, workers, next_step_handlers, reconciler, loops, lock, tracking, monitoring, now, user_data, state,
                       next_message_id, result_messages, rows, notification_cache, sent>>

\* the invocation raises e: get_db_session rolls back; the wrapper sleeps
\* and continues, or re-raises.  The guard on attempt is range(max_retries);
\* the raise last_exception after the loop is never reached, since the last
\* attempt returns or raises.
wrapper_invoke_raises(e) ==
    /\ retry.pc = "try"
    /\ retry.attempt < MAX_RETRIES
    /\ retry' = [retry EXCEPT
                    !.pc = IF Retryable(e) /\ retry.attempt < MAX_RETRIES - 1
                           THEN "sleep" ELSE "raised",
                    !.invocations = retry.invocations + 1,
                    !.last = e]
    /\ last_event' = EventN(retry.func, retry.user, e.class, retry.invocations + 1)
    /\ UNCHANGED <<janitor, fixer, workers, next_step_handlers, reconciler, loops, lock, tracking, monitoring, now, user_data, state,
                   next_message_id, result_messages, db_users, rows, subs,
                   notification_cache, sent>>

\* time.sleep(retry_delay * 2 ** attempt); continue.  slept counts the
\* delay in units of retry_delay.
wrapper_sleep ==
    /\ retry.pc = "sleep"
    /\ retry' = [retry EXCEPT !.pc = "try",
                              !.attempt = retry.attempt + 1,
                              !.slept = retry.slept + Pow2(retry.attempt)]
    /\ last_event' = EventN(retry.func, retry.user, "retry", retry.attempt + 1)
    /\ UNCHANGED <<janitor, fixer, workers, next_step_handlers, reconciler, loops, lock, tracking, monitoring, now, user_data, state,
                   next_message_id, result_messages, db_users, rows, subs,
                   notification_cache, sent>>

\* the caller has the result or the exception: the next call can start
wrapper_done ==
    /\ retry.pc \in {"returned", "raised"}
    /\ retry' = [retry EXCEPT !.pc = "idle"]
    /\ last_event' = Event(retry.func, retry.user, "done")
    /\ UNCHANGED <<janitor, fixer, workers, next_step_handlers, reconciler, loops, lock, tracking, monitoring, now, user_data, state,
                   next_message_id, result_messages, db_users, rows, subs,
                   notification_cache, sent>>

\* get_remaining_free_requests(telegram_id) is called through its wrapper:
\* the wrapper's attempt runs the body, whose first statement calls
\* check_subscription_status through that method's own wrapper
StatusCall(u, frame, slept) ==
    [pc |-> "try", func |-> "check_subscription_status", user |-> u, attempt |-> 0,
     invocations |-> 0, last |-> NoError, slept |-> slept, caller |-> frame]

remaining_wrapper_call(u) ==
    /\ retry.pc = "idle"
    /\ retry' = StatusCall(u, [NoCaller EXCEPT !.func = "get_remaining_free_requests"], 0)
    /\ last_event' = Event("get_remaining_free_requests", u, "called")
    /\ UNCHANGED <<janitor, fixer, workers, next_step_handlers, reconciler, loops, lock, tracking, monitoring, now, user_data, state,
                   next_message_id, result_messages, db_users, rows, subs,
                   notification_cache, sent>>

\* the body of check_subscription_status returns inside the nested call
nested_status_returns ==
    LET u == retry.user
    IN  /\ retry.pc = "try"
        /\ retry.caller.func = "get_remaining_free_requests"
        /\ retry.attempt < MAX_RETRIES
        /\ retry' = [retry EXCEPT !.pc = "returned",
                                  !.invocations = retry.invocations + 1,
                                  !.last = NoError,
                                  !.caller.returned = retry.caller.returned + 1]
        /\ subs' = SubsAfterCheck(u)
        /\ last_event' = EventN("check_subscription_status", u,
                                IF IsSubscribed(u) THEN "True" ELSE "False",
                                retry.invocations + 1)
        /\ UNCHANGED <<janitor, fixer, workers, next_step_handlers, reconciler, loops, lock, tracking, monitoring, now, user_data, state,
                       next_message_id, result_messages, db_users, rows, notification_cache, sent>>

\* the outer wrapper's except clauses for an exception e leaving the body:
\* sleep and run the body again, which calls check_subscription_status
\* afresh, or re-raise to the caller of get_remaining_free_requests
OuterExcept(e) ==
    LET frame == retry.caller
    IN  IF Retryable(e) /\ frame.attempt < MAX_RETRIES - 1
        THEN StatusCall(retry.user,
                        [frame EXCEPT !.attempt = frame.attempt + 1,
                                      !.earlier = frame.earlier + retry.invocations],
                        retry.slept + Pow2(frame.attempt))
        ELSE [retry EXCEPT !.pc = "raised", !.func = frame.func,
                           !.attempt = frame.attempt,
                           !.invocations = frame.attempt + 1,
                           !.last = e, !.caller = NoCaller]

\* the exception the wrapper of check_subscription_status raised leaves the
\* body of get_remaining_free_requests and reaches the outer wrapper
nested_propagates ==
    /\ retry.pc = "raised"
    /\ retry.caller.func = "get_remaining_free_requests"
    /\ retry' = OuterExcept(retry.last)
    /\ last_event' = EventN("get_remaining_free_requests", retry.user, retry.last.class,
                            retry.caller.attempt + 1)
    /\ UNCHANGED <<janitor, fixer, workers, next_step_handlers, reconciler, loops, lock, tracking, monitoring, now, user_data, state,
                   next_message_id, result_messages, db_users, rows, subs,
                   notification_cache, sent>>

\* check_subscription_status has returned: float('inf') for a subscriber,
\* otherwise the count query returns and the remaining requests are returned
nested_count_returns ==
    LET u == retry.user
    IN  /\ retry.pc = "returned"
        /\ retry.caller.func = "get_remaining_free_requests"
        /\ retry' = [retry EXCEPT !.func = retry.caller.func,
                                  !.attempt = retry.caller.attempt,
                                  !.invocations = retry.caller.attempt + 1,
                                  !.caller = NoCaller]
        /\ last_event' = EventN("get_remaining_free_requests", u,
                                IF RemainingFree(u).inf THEN "inf" ELSE "finite",
                                RemainingFree(u).n)
        /\ UNCHANGED <<janitor, fixer, workers, next_step_handlers, reconciler, loops, lock, tracking, monitoring, now, user_data, state,
                       next_message_id, result_messages, db_users, rows, subs,
                       notification_cache, sent>>

\* check_subscription_status has returned False and the count query raises e
nested_count_raises(e) ==
    /\ retry.pc = "returned"
    /\ retry.caller.func = "get_remaining_free_requests"
    /\ ~IsSubscribed(retry.user)
    /\ retry' = OuterExcept(e)
    /\ last_event' = EventN("get_remaining_free_requests", retry.user, e.class,
                            retry.caller.attempt + 1)
    /\ UNCHANGED <<janitor, fixer, workers, next_step_handlers, reconciler, loops, lock, tracking, monitoring, now, user_data, state,
                   next_message_id, result_messages, db_users, rows, subs,
                   notification_cache, sent>>

(***************************************************************************)
(* MetricsCollector.track_api_call, statement by statement, and the readers *)
(***************************************************************************)
\* a worker thread calls track_api_call(api_name, error=error), without a
\* response time
\* track_api_call(api_name, response_time, error) is entered; response_time
\* 0 stands for None
track_api_call(t, api_name, response_time, error) ==
    /\ tracking[t].pc = "idle"
    /\ tracking' = [tracking EXCEPT ![t] = [pc |-> "acquire", api_name |-> api_name,
                                             response_time |-> response_time,
                                             error |-> error, read |-> 0]]
    /\ last_event' = EventN("track_api_call", 0, "called", t)
    /\ UNCHANGED <<janitor, fixer, workers, next_step_handlers, reconciler, loops, retry, lock, monitoring, now,
                   user_data, state, next_message_id, result_messages, db_users, rows,
                   subs, notification_cache, sent>>

\* with self.lock:
track_acquire(t) ==
    /\ tracking[t].pc = "acquire"
    /\ LockFree
    /\ lock' = t
    /\ tracking' = [tracking EXCEPT ![t].pc = "calls_read"]
    /\ last_event' = EventN("track_api_call", 0, "locked", t)
    /\ UNCHANGED <<janitor, fixer, workers, next_step_handlers, reconciler, loops, retry, monitoring, now,
                   user_data, state, next_message_id, result_messages, db_users, rows,
                   subs, notification_cache, sent>>

\* the left half of counter[api_name] += 1: defaultdict.__getitem__, which
\* inserts 0 for a missing name
track_read(t, counter, pc, next) ==
    LET name == tracking[t].api_name
        d    == metrics[counter]
    IN  /\ tracking[t].pc = pc
        /\ metrics' = [metrics EXCEPT ![counter] = Put(d, name, Get(d, name, 0))]
        /\ tracking' = [tracking EXCEPT ![t].pc = next, ![t].read = Get(d, name, 0)]
        /\ last_event' = EventN("track_api_call", 0, pc, t)
        /\ UNCHANGED <<janitor, fixer, workers, next_step_handlers, reconciler, loops, retry, lock, metrics_file,
                       now, user_data, state, next_message_id, result_messages, db_users,
                       rows, subs, notification_cache, sent>>

\* the right half of counter[api_name] += 1: __setitem__ of the value read
\* plus one
track_write(t, counter, pc, next) ==
    LET name == tracking[t].api_name
    IN  /\ tracking[t].pc = pc
        /\ metrics' = [metrics EXCEPT ![counter] =
                           Put(metrics[counter], name, tracking[t].read + 1)]
        /\ tracking' = [tracking EXCEPT ![t].pc = next]
        /\ last_event' = EventN("track_api_call", 0, pc, t)
        /\ UNCHANGED <<janitor, fixer, workers, next_step_handlers, reconciler, loops, retry, lock, metrics_file,
                       now, user_data, state, next_message_id, result_messages, db_users,
                       rows, subs, notification_cache, sent>>

\* self.metrics['api_calls'][api_name] += 1
track_calls_read(t) == track_read(t, "api_calls", "calls_read", "calls_write")

\* if response_time is not None: where the call goes after the counters
AfterCounters(t) == IF tracking[t].response_time = 0 THEN "release" ELSE "times_check"

track_calls_write(t) ==
    track_write(t, "api_calls", "calls_write",
                IF tracking[t].error THEN "errors_read" ELSE AfterCounters(t))

\* if error: self.metrics['api_errors'][api_name] += 1
track_errors_read(t) == track_read(t, "api_errors", "errors_read", "errors_write")

track_errors_write(t) == track_write(t, "api_errors", "errors_write", AfterCounters(t))

\* if api_name not in self.metrics['api_response_times']:
\*     self.metrics['api_response_times'][api_name] = deque(maxlen=...)
track_times_check(t) ==
    LET name == tracking[t].api_name
        d    == metrics.api_response_times
    IN  /\ tracking[t].pc = "times_check"
        /\ metrics' = IF name \in DOMAIN d THEN metrics
                      ELSE [metrics EXCEPT !.api_response_times = Put(d, name, Deque(<<>>))]
        /\ tracking' = [tracking EXCEPT ![t].pc = "times_append"]
        /\ last_event' = EventN("track_api_call", 0, "times_check", t)
        /\ UNCHANGED <<janitor, fixer, workers, next_step_handlers, reconciler, loops, retry, lock, metrics_file,
                       now, user_data, state, next_message_id, result_messages, db_users,
                       rows, subs, notification_cache, sent>>

\* self.metrics['api_response_times'][api_name].append(response_time): the
\* subscript is defaultdict.__getitem__, which inserts a list for a name the
\* dict does not hold
track_times_append(t) ==
    LET name == tracking[t].api_name
        d    == metrics.api_response_times
    IN  /\ tracking[t].pc = "times_append"
        /\ metrics' = [metrics EXCEPT !.api_response_times =
                           Put(d, name, ContainerAppend(Get(d, name, EmptyList),
                                                        tracking[t].response_time))]
        /\ tracking' = [tracking EXCEPT ![t].pc = "release"]
        /\ last_event' = EventN("track_api_call", 0, "times_append", t)
        /\ UNCHANGED <<janitor, fixer, workers, next_step_handlers, reconciler, loops, retry, lock, metrics_file,
                       now, user_data, state, next_message_id, result_messages, db_users,
                       rows, subs, notification_cache, sent>>

\* the caller of track_api_call goes on: the thread is free for another call
track_returned(t) ==
    /\ tracking[t].pc = "done"
    /\ tracking' = [tracking EXCEPT ![t] = Idle]
    /\ last_event' = EventN("track_api_call", 0, "idle", t)
    /\ UNCHANGED <<janitor, fixer, workers, next_step_handlers, reconciler, loops, retry, lock, monitoring, now,
                   user_data, state, next_message_id, result_messages, db_users, rows,
                   subs, notification_cache, sent>>

\* /reset_metrics of an administrator, handled on worker thread w:
\* metrics_collector._init_default_metrics(), called without the lock
reset_metrics_command(w) ==
    /\ workers[w].pc \in {"idle", "done"}
    /\ metrics' = DefaultMetrics
    /\ workers' = [workers EXCEPT ![w] = [IdleWorker EXCEPT !.pc = "save_metrics"]]
    /\ last_event' = EventN("reset_metrics_command", 0, "reset", w)
    /\ UNCHANGED <<janitor, fixer, next_step_handlers, reconciler, loops, retry, lock, tracking,
                   metrics_file, now, user_data, state, next_message_id, result_messages,
                   db_users, rows, subs, notification_cache, sent>>

\* metrics_collector.save_metrics() of /reset_metrics, which takes the lock,
\* and the reply
reset_metrics_save(w) ==
    /\ workers[w].pc = "save_metrics"
    /\ LockFree
    /\ metrics_file' \in Serialised(metrics)
    /\ workers' = [workers EXCEPT ![w].pc = "done", ![w].answer = "reset"]
    /\ last_event' = EventN("reset_metrics_command", 0, "saved", w)
    /\ UNCHANGED <<janitor, fixer, next_step_handlers, reconciler, loops, retry, lock, tracking,
                   metrics, now, user_data, state, next_message_id, result_messages,
                   db_users, rows, subs, notification_cache, sent>>

\* the end of the with block: the lock is released and the call returns
track_release(t) ==
    /\ tracking[t].pc = "release"
    /\ lock' = IF lock = t THEN 0 ELSE lock
    /\ tracking' = [tracking EXCEPT ![t].pc = "done"]
    /\ last_event' = EventN("track_api_call", 0, "returned", t)
    /\ UNCHANGED <<janitor, fixer, workers, next_step_handlers, reconciler, loops, retry, monitoring, now,
                   user_data, state, next_message_id, result_messages, db_users, rows,
                   subs, notification_cache, sent>>

\* get_metrics_summary: the totals and the counters it returns
Summary(m) ==
    [total_api_calls |-> SumValues(m.api_calls),
     total_api_errors |-> SumValues(m.api_errors),
     photo_analyses |-> m.photo_analyses, voice_analyses |-> m.voice_analyses,
     text_analyses |-> m.text_analyses, barcode_scans |-> m.barcode_scans,
     unique_users_count |-> Cardinality(m.unique_users),
     subscription_purchases |-> m.subscription_purchases,
     restart_count |-> m.restart_count]

\* /metrics: get_metrics_summary reads every counter under the lock
get_metrics_summary ==
    /\ LockFree
    /\ last_event' = EventN("get_metrics_summary", 0, "summary",
                            Summary(metrics).total_api_calls)
    /\ UNCHANGED <<control, monitoring, now, user_data, state, next_message_id,
                   result_messages, db_users, rows, subs, notification_cache, sent>>

\* the process is started again: what lived in memory is as after
\* construction, and the constructor of the collector loads the file.  The
\* database, the file and what Telegram holds (messages sent) stay.
restart ==
    /\ user_data' = EmptyDict
    /\ state' = [u \in Users |-> "None"]
    /\ notification_cache' = EmptyDict
    /\ next_step_handlers' = {}
    /\ reconciler' = [pc |-> "sleep", expired_subscriptions |-> <<>>, current_time |-> 0]
    /\ loops' = [l \in Loops |-> "try"]
    /\ retry' = [pc |-> "idle", func |-> "none", user |-> 0, attempt |-> 0,
                 invocations |-> 0, last |-> [class |-> "none", keyword |-> "none"],
                 slept |-> 0, caller |-> NoCaller]
    /\ lock' = 0
    /\ tracking' = [t \in Threads |-> Idle]
    /\ workers' = [t \in Threads |-> IdleWorker]
    /\ fixer' = IdleFixer
    /\ janitor' = IdleJanitor
    /\ metrics' = LoadMetrics(DefaultMetrics, metrics_file)
    /\ last_event' = EventN("restart", 0, "loaded", metrics'.restart_count)
    /\ UNCHANGED <<metrics_file, now, next_message_id, result_messages, db_users, rows,
                   subs, sent>>

(***************************************************************************)
(* Specifications                                                          *)
(***************************************************************************)
\* the instants observed, as offsets from the start of the process:
\* 10 minutes, 2 hours, 2 hours 10 minutes
SessionInstants == {StartTime + d : d \in {0, 600, 7200, 7800}}

SessionFoods == {f \in Foods : f.name = "apple"} \cup {NoFood}

\* the session store under analyses, "add to statistics" and the janitor
NextSession ==
    \/ \E t \in SessionInstants : Tick(t)
    \/ \E u \in Pair, res \in SessionFoods : photo_handler(u, res, TRUE)
    \/ \E u \in Pair, m \in 1..MaxMsg, db_ok \in BOOLEAN : add_stats_callback(u, m, db_ok)
    \/ cleanup_user_data
    \/ cleanup_command

SpecSession == Init /\ [][NextSession]_vars

\* a store that can outgrow the hard cap: every user sends commands
NextCap ==
    \/ \E t \in SessionInstants : Tick(t)
    \/ \E u \in Users : text_handler(u, TRUE, NoFood, TRUE)
    \/ cleanup_user_data

SpecCap == Init /\ [][NextCap]_vars

WizardInputs == {Tok("int", v) : v \in {11, 12, 100, 301}} \cup {Tok("nan", 0), Tok("word", 0)}
WizardInstants == {StartTime + USER_DATA_MAX_AGE + 600}
WizardFoods == {f \in Foods : f.estimated}

\* the profile wizard under the janitor, /cleanup and other button presses
NextWizard ==
    \/ \E t \in WizardInstants : Tick(t)
    \/ start(1)
    \/ setup_callback(1, "setup_profile")
    \/ gender_callback(1, "male")
    \/ \E tok \in WizardInputs : process_age(1, tok)
    \/ \E tok \in WizardInputs : process_weight(1, tok)
    \/ \E tok \in WizardInputs : process_height(1, tok)
    \/ activity_callback(1, 1200)
    \/ \E db_ok \in BOOLEAN : goal_callback(1, "maintenance", db_ok)
    \/ \E res \in WizardFoods : voice_handler(1, res, TRUE)
    \/ \E m \in 1..MaxMsg : specify_food_callback(1, m)
    \/ \E tok \in {Tok("word", 0), Tok("cancel", 0)}, res \in WizardFoods :
          handle_food_name(1, tok, res, TRUE)
    \/ cleanup_user_data
    \/ cleanup_command

SpecWizard == Init /\ [][NextWizard]_vars

PortionInputs == {Tok("int", v) : v \in {0, 11, 100, 301}} \cup {Tok("word", 0), Tok("cancel", 0)}

\* the portion-size sub-flow
NextPortion ==
    \/ \E res \in RecognitionResults, c \in BOOLEAN : text_handler(1, c, res, TRUE)
    \/ \E m \in 1..MaxMsg : specify_portion_callback(1, m)
    \/ \E tok \in PortionInputs, db_ok \in BOOLEAN : handle_portion_size(1, tok, db_ok)
    \/ \E m \in 1..MaxMsg + 1 : add_stats_callback(1, m, TRUE)

SpecPortion == Init /\ [][NextPortion]_vars

\* the instants observed by the subscription model, as offsets from the
\* start: 1 h, 23 h, 24 h, 49 h, each also 30 days less 3 hours later
SubInstants ==
    {StartTime + a + b : a \in {0, SECONDS_PER_HOUR, NOTIFY_INTERVAL, SECONDS_PER_DAY,
                                2 * SECONDS_PER_DAY + SECONDS_PER_HOUR},
                         b \in {0, DAYS_PER_MONTH * SECONDS_PER_DAY
                                   - TIMEZONE_OFFSET * SECONDS_PER_HOUR}}

\* payments, status checks and the reconciler
NextSub ==
    \/ \E t \in SubInstants : Tick(t)
    \/ \E u \in Pair, m \in Months, db_ok \in BOOLEAN : process_successful_payment(u, m, db_ok)
    \/ \E m \in Months : payment_notification(1, m, TRUE)
    \/ \E u \in Pair : check_subscription_status(u)
    \/ \E send_ok \in [1..MaxSubs -> BOOLEAN], db_ok \in BOOLEAN :
          cleanup_expired_subscriptions(send_ok, db_ok)

SpecSub == Init /\ [][NextSub]_vars

QuotaInstants ==
    {StartTime + a + b : a \in {0, SECONDS_PER_HOUR},
                         b \in {0, DAYS_PER_MONTH * SECONDS_PER_DAY
                                   - TIMEZONE_OFFSET * SECONDS_PER_HOUR}}

\* the free-request quota of one user under saves, payments and expiry
NextQuota ==
    \/ \E t \in QuotaInstants : Tick(t)
    \/ \E m \in Months : process_successful_payment(1, m, TRUE)
    \/ \E res \in SessionFoods \ {NoFood} : save_food_analysis(1, res)
    \/ get_remaining_free_requests(1)
    \/ check_subscription_status(1)
    \/ \E db_ok \in BOOLEAN : cleanup_expired_subscriptions([i \in 1..MaxSubs |-> TRUE], db_ok)

SpecQuota == Init /\ [][NextQuota]_vars

\* analyses of two users whose records also hold a profile draft field
\* (gender), message_id and added_to_stats_* flags
ResetInstants == {StartTime + 600}

NextReset ==
    \/ \E t \in ResetInstants : Tick(t)
    \/ \E u \in Pair, res \in SessionFoods, db_ok \in BOOLEAN : photo_handler(u, res, db_ok)
    \/ \E res \in SessionFoods : voice_handler(1, res, TRUE)
    \/ \E c \in BOOLEAN, res \in SessionFoods : text_handler(2, c, res, TRUE)
    \/ \E u \in Pair : gender_callback(u, "male")
    \/ \E m \in 1..MaxMsg : specify_portion_callback(1, m)
    \/ \E m \in 1..MaxMsg : add_stats_callback(1, m, TRUE)

SpecReset == Init /\ [][NextReset]_vars

\* the food-name sub-flow of one user whose analyses are saved to the
\* statistics before the name is given
RefineInstants == {StartTime + 600}

NextRefine ==
    \/ \E t \in RefineInstants : Tick(t)
    \/ \E res \in Foods : photo_handler(1, res, TRUE)
    \/ \E m \in 1..MaxMsg : add_stats_callback(1, m, TRUE)
    \/ \E m \in 1..MaxMsg : specify_food_callback(1, m)
    \/ \E tok \in {Tok("word", 0), Tok("cancel", 0)}, lookup \in RecognitionResults,
          db_ok \in BOOLEAN : handle_food_name(1, tok, lookup, db_ok)

SpecRefine == Init /\ [][NextRefine]_vars

\* the last second before and the first second of 05:00, 11:00, 16:00 and
\* 21:00 local time (UTC+3) of the day after the start
MealInstants ==
    LET midnight == StartTime - (StartTime % SECONDS_PER_DAY) + SECONDS_PER_DAY
    IN  {midnight + (h - TIMEZONE_OFFSET) * SECONDS_PER_HOUR - d :
            h \in {5, 11, 16, 21}, d \in {0, 1}}

\* one user's analyses saved to the statistics at any time of the day
NextMeal ==
    \/ \E t \in MealInstants : Tick(t)
    \/ text_handler(1, FALSE, CHOOSE f \in Foods : ~f.estimated, TRUE)
    \/ \E m \in 1..MaxMsg, db_ok \in BOOLEAN : add_stats_callback(1, m, db_ok)

SpecMeal == Init /\ [][NextMeal]_vars

\* the values typed in one walk through the profile wizard
CalcAges == {Tok("int", v) : v \in {12, 57, 100}}
CalcWeights == {Tok("int", v) : v \in {30, 83, 300}}
CalcHeights == {Tok("int", v) : v \in {100, 178, 250}}

\* the record of user u, empty if there is none
Draft(u) == Get(user_data, u, EmptyDict)

\* a registered user without a goal walks through the wizard once, pressing
\* each button when it is offered
NextCalc ==
    \/ start(1)
    \/ \E gender \in Genders :
          /\ 1 \in DOMAIN db_users /\ "goal" \notin DOMAIN db_users[1]
          /\ Draft(1) = EmptyDict
          /\ gender_callback(1, gender)
    \/ \E tok \in CalcAges : process_age(1, tok)
    \/ \E tok \in CalcWeights : process_weight(1, tok)
    \/ \E tok \in CalcHeights : process_height(1, tok)
    \/ \E activity_level \in Activities :
          /\ "height" \in DOMAIN Draft(1) /\ "activity_level" \notin DOMAIN Draft(1)
          /\ activity_callback(1, activity_level)
    \/ \E goal \in Goals :
          /\ "activity_level" \in DOMAIN Draft(1)
          /\ goal_callback(1, goal, TRUE)

SpecCalc == Init /\ [][NextCalc]_vars

\* the instants observed around the reconciler: the payment, one hour
\* later, and the same 30 days later
ReconcilerInstants ==
    {StartTime + a + b : a \in {0, SECONDS_PER_HOUR},
                         b \in {0, DAYS_PER_MONTH * SECONDS_PER_DAY}}

\* the reconciler thread among payments and status checks of two users
NextReconciler ==
    \/ \E t \in ReconcilerInstants : Tick(t)
    \/ \E u \in Pair, m \in Months : process_successful_payment(u, m, TRUE)
    \/ \E u \in Pair : check_subscription_status(u)
    \/ \E db_ok \in BOOLEAN : reconciler_commit(db_ok)
    \/ \E send_ok \in BOOLEAN : reconciler_notify(send_ok)
    \/ reconciler_purge

SpecReconciler == Init /\ [][NextReconciler]_vars

\* the three background loops, their cycles raising or not, among analyses
\* and payments
LoopInstants == {StartTime + DAYS_PER_MONTH * SECONDS_PER_DAY}

NextLoops ==
    \/ \E t \in LoopInstants : Tick(t)
    \/ \E u \in Pair : text_handler(u, TRUE, NoFood, TRUE)
    \/ \E m \in Months : process_successful_payment(1, m, TRUE)
    \/ cleanup_user_data
    \/ \E kind \in ExceptionKinds, evicted \in BOOLEAN : cleanup_user_data_raises(kind, evicted)
    \/ \E send_ok \in [1..MaxSubs -> BOOLEAN], db_ok \in BOOLEAN :
          cleanup_expired_subscriptions(send_ok, db_ok)
    \/ \E kind \in ExceptionKinds : cleanup_worker_raises(kind)
    \/ \E raises \in BOOLEAN, kind \in ExceptionKinds : save_periodically(raises, kind)
    \/ \E l \in Loops : loop_continues(l)

\* a thread that is in its except clause goes on: the scheduler runs it
SpecLoops ==
    Init /\ [][NextLoops]_vars /\ \A l \in Loops : WF_vars(loop_continues(l))

\* calls of two wrapped methods, each invocation returning or raising
NextRetry ==
    \/ \E func \in WrappedFunctions, u \in Pair : wrapper_call(func, u)
    \/ wrapper_invoke_returns
    \/ \E e \in Errors : wrapper_invoke_raises(e)
    \/ wrapper_sleep
    \/ wrapper_done

\* the thread in the wrapper runs, and the wrapped method returns or raises
SpecRetry ==
    /\ Init /\ [][NextRetry]_vars
    /\ WF_vars(wrapper_invoke_returns \/ \E e \in Errors : wrapper_invoke_raises(e))
    /\ WF_vars(wrapper_sleep)

\* calls of get_remaining_free_requests for one user, who may have bought a
\* subscription: every store access returns or raises
NextNested ==
    \/ \E m \in Months : payment_notification(1, m, TRUE)
    \/ remaining_wrapper_call(1)
    \/ nested_status_returns
    \/ \E e \in Errors : wrapper_invoke_raises(e)
    \/ wrapper_sleep
    \/ nested_propagates
    \/ nested_count_returns
    \/ \E e \in Errors : nested_count_raises(e)
    \/ (retry.caller = NoCaller /\ wrapper_done)

SpecNested == Init /\ [][NextNested]_vars

\* worker threads inside track_api_call beside /metrics and the periodic
\* save
NextMetrics ==
    \/ \E t \in Threads, api_name \in ApiNames, error \in BOOLEAN :
          track_api_call(t, api_name, 0, error)
    \/ \E t \in Threads : track_acquire(t)
    \/ \E t \in Threads : track_calls_read(t)
    \/ \E t \in Threads : track_calls_write(t)
    \/ \E t \in Threads : track_errors_read(t)
    \/ \E t \in Threads : track_errors_write(t)
    \/ \E t \in Threads : track_release(t)
    \/ get_metrics_summary
    \/ save_periodically(FALSE, "none")

SpecMetrics == Init /\ [][NextMetrics]_vars

\* text analyses of two users, a payment, API calls of one thread and the
\* periodic save, over restarts of the process
NextPersist ==
    \/ \E u \in Pair : text_handler(u, FALSE, CHOOSE f \in Foods : ~f.estimated, TRUE)
    \/ process_successful_payment(1, 1, TRUE)
    \/ \E error \in BOOLEAN : track_api_call(1, "db_add_subscription", 0, error)
    \/ track_acquire(1)
    \/ track_calls_read(1)
    \/ track_calls_write(1)
    \/ track_errors_read(1)
    \/ track_errors_write(1)
    \/ track_release(1)
    \/ save_periodically(FALSE, "none")
    \/ metrics.restart_count < MaxRestarts /\ restart

SpecPersist == Init /\ [][NextPersist]_vars

\* 10 minutes and 1 h 45 min after the start: a record touched at the first
\* is more than 1 hour and less than 2 hours old at the second
JanitorInstants == {StartTime + d : d \in {600, 6300}}

\* the janitor over records that hold a profile draft, a cached analysis and
\* added_to_stats_* flags, of a user in and out of a dialog state
NextJanitor ==
    \/ \E t \in JanitorInstants : Tick(t)
    \/ \E res \in SessionFoods : photo_handler(1, res, TRUE)
    \/ \E m \in 1..MaxMsg : add_stats_callback(1, m, TRUE)
    \/ gender_callback(1, "male")
    \/ \E tok \in {Tok("int", 12), Tok("word", 0)} : process_age(1, tok)
    \/ goal_callback(1, "maintenance", FALSE)
    \/ cleanup_user_data

SpecJanitor == Init /\ [][NextJanitor]_vars

\* presses of "add to statistics" handled by two worker threads at once
NextAddStats ==
    \/ \E u \in Pair, res \in SessionFoods : photo_handler(u, res, TRUE)
    \/ \E t \in Threads, u \in Pair, m \in 1..MaxMsg : add_stats_check(t, u, m)
    \/ \E t \in Threads, db_ok \in BOOLEAN : add_stats_save(t, db_ok)
    \/ \E t \in Threads : add_stats_mark(t)

SpecAddStats == Init /\ [][NextAddStats]_vars

\* the instant at which the subscriptions bought at the start have expired
FixInstants == {StartTime + DAYS_PER_MONTH * SECONDS_PER_DAY}

\* the reconciler thread and the handler thread of /fix_subscriptions over
\* the subscriptions of two users
NextFix ==
    \/ \E t \in FixInstants : Tick(t)
    \/ \E u \in Pair, m \in Months : payment_notification(u, m, TRUE)
    \/ reconciler_commit(TRUE)
    \/ \E send_ok \in BOOLEAN : reconciler_notify(send_ok)
    \/ reconciler_purge
    \/ fix_query
    \/ fix_commit
    \/ fix_check
    \/ \E send_ok \in BOOLEAN : fix_send(send_ok)
    \/ fix_rebuild
    \/ fix_assign

SpecFix == Init /\ [][NextFix]_vars

\* 2 hours and 10 minutes after the start: a record touched at the start is
\* stale
RaceInstants == {StartTime + USER_DATA_MAX_AGE + 600}

\* photos of two users handled on a worker thread while the janitor thread
\* is inside a cycle; the 2 hours pass while neither is at work
NextRace ==
    \/ /\ workers[1].pc \in {"idle", "done"}
       /\ janitor.pc = "sleep"
       /\ \E t \in RaceInstants : Tick(t)
    \/ \E u \in Pair : photo_touch(1, u)
    \/ photo_reset(1)
    \/ \E res \in SessionFoods : photo_store(1, res)
    \/ janitor_scan
    \/ janitor_remove

SpecRace == Init /\ [][NextRace]_vars

\* 30 and 60 days after the start: a subscription bought at the start has
\* expired, and so has one bought 30 days later
LiveInstants == {StartTime + k * DAYS_PER_MONTH * SECONDS_PER_DAY : k \in {1, 2}}

\* the reconciler thread, its cycles following each other, among payments
\* and status checks of two users; the store may fail a cycle, the sends
\* succeed
NextLive ==
    \/ \E t \in LiveInstants : Tick(t)
    \/ \E u \in Pair, m \in Months : payment_notification(u, m, TRUE)
    \/ \E u \in Pair : check_subscription_status(u)
    \/ \E db_ok \in BOOLEAN : reconciler_commit(db_ok)
    \/ reconciler_notify(TRUE)
    \/ reconciler_purge

\* cleanup_worker is scheduled: a cycle whose store access succeeds comes,
\* and a cycle that has committed goes through its notifications to its end
SpecLive ==
    /\ Init /\ [][NextLive]_vars
    /\ WF_vars(reconciler_commit(TRUE))
    /\ WF_vars(reconciler_notify(TRUE))
    /\ WF_vars(reconciler_purge)

\* the texts sent in waiting_for_portion_size: "0", "9", "100", a word, a
\* cancel word, a superscript digit
GramsInputs ==
    {Tok("int", v) : v \in {0, 9, 100}} \cup
    {Tok("word", 0), Tok("cancel", 0), Tok("superscript", 0)}

\* the portion-size sub-flow of one user, the session store emptied by
\* /cleanup or not
NextGrams ==
    \/ Tick(StartTime + USER_DATA_MAX_AGE)
    \/ \E res \in Foods : text_handler(1, FALSE, res, TRUE)
    \/ \E m \in 1..MaxMsg : specify_portion_callback(1, m)
    \/ \E tok \in GramsInputs, db_ok \in BOOLEAN : handle_portion_size(1, tok, db_ok)
    \/ cleanup_command

SpecGrams == Init /\ [][NextGrams]_vars

\* 30 days after the start: a subscription bought at the start has expired
RefuseInstants == {StartTime + DAYS_PER_MONTH * SECONDS_PER_DAY}

\* analysis requests of one user by photo, voice and text, among presses on
\* "add to statistics", a payment and the passing of days
NextRefuse ==
    \/ \E t \in RefuseInstants : Tick(t)
    \/ \E m \in Months : payment_notification(1, m, TRUE)
    \/ \E res \in SessionFoods, db_ok \in BOOLEAN : photo_handler(1, res, db_ok)
    \/ \E res \in SessionFoods \ {NoFood} : voice_handler(1, res, TRUE)
    \/ \E res \in SessionFoods \ {NoFood} : text_handler(1, FALSE, res, TRUE)
    \/ \E m \in 1..MaxMsg : add_stats_callback(1, m, TRUE)

SpecRefuse == Init /\ [][NextRefuse]_vars

\* the response times recorded
ResponseTimes == {1, 2}

\* timed calls of one API on one thread, /reset_metrics on another, the
\* periodic save and restarts of the process; a process that has handled
\* /reset_metrics is followed to its end
NextTimes ==
    \/ /\ Get(metrics.api_calls, "db_save_food_analysis", 0) < MaxTimed
       /\ \E r \in ResponseTimes : track_api_call(1, "db_save_food_analysis", r, FALSE)
    \/ track_acquire(1)
    \/ track_calls_read(1)
    \/ track_calls_write(1)
    \/ track_times_check(1)
    \/ track_times_append(1)
    \/ track_release(1)
    \/ track_returned(1)
    \/ reset_metrics_command(2)
    \/ reset_metrics_save(2)
    \/ save_periodically(FALSE, "none")
    \/ /\ metrics.restart_count < MaxRestarts
       /\ workers[2].pc = "idle"
       /\ restart

SpecTimes == Init /\ [][NextTimes]_vars

Num(v) == Tok("int", v)

\* the texts sent to process_manual_norms, split at whitespace: the example
\* of the prompt, the ends of the ranges, a value below and one above its
\* range, three and five tokens, a word, "nan"
NormsInputs ==
    { <<Num(2000), Num(150), Num(70), Num(200)>>,
      <<Num(500), Num(10), Num(10), Num(10)>>,
      <<Num(10000), Num(500), Num(500), Num(1000)>>,
      <<Num(499), Num(150), Num(70), Num(200)>>,
      <<Num(2000), Num(150), Num(70), Num(1001)>>,
      <<Num(2000), Num(150), Num(70)>>,
      <<Num(2000), Num(150), Num(70), Num(200), Num(5)>>,
      <<Num(2000), Tok("word", 0), Num(70), Num(200)>>,
      <<Tok("nan", 0), Num(150), Num(70), Num(200)>>,
      <<>> }

\* the manual-norms sub-flow of two users, registered by /start or not
NextNorms ==
    \/ \E u \in Pair : start(u)
    \/ \E u \in Pair, data \in SetupData : setup_callback(u, data)
    \/ \E u \in Pair, values \in NormsInputs, db_ok \in BOOLEAN :
          process_manual_norms(u, values, db_ok)
    \/ \E u \in Pair : text_handler(u, TRUE, NoFood, TRUE)

SpecNorms == Init /\ [][NextNorms]_vars

(***************************************************************************)
(* Properties                                                              *)
(***************************************************************************)
\* C1: a result message pressed "add to statistics" several times, with no
\* new analysis in between, has exactly one FoodAnalysis row: no two rows
\* come from the same result message showing the same analysis.
C1_OneRowPerResultMessage ==
    \A i, j \in DOMAIN rows :
        (rows[i].msg = rows[j].msg /\ rows[i].analysis = rows[j].analysis) => i = j

\* C2: each user has at most one UserSubscription record with
\* is_active = true and end_date > now.
C2_AtMostOneActiveSubscription ==
    \A u \in Users :
        Cardinality({i \in DOMAIN subs :
            subs[i].user_id = u /\ subs[i].is_active /\ subs[i].end_date > now}) <= 1

NotificationsTo(S, u) == {k \in DOMAIN S : S[k].user = u}

\* the notifications to u that lie in the 23 hours ending at t
RecentNotificationsTo(S, u, t) ==
    {k \in NotificationsTo(S, u) : t - S[k].time <= NOTIFY_INTERVAL}

\* C3: any two renewal notifications to the same user are more than 23 hours
\* apart; and a reconciler cycle that finds an expired subscription, with
\* delivery working, leaves exactly one notification to its owner in the
\* 23 hours up to the cycle, so a second cycle one hour later adds none.
C3_NotificationsSpaced ==
    [][ /\ \A i, j \in DOMAIN sent' :
              (i < j /\ sent'[i].user = sent'[j].user)
                  => sent'[j].time - sent'[i].time > NOTIFY_INTERVAL
        /\ cleanup_expired_subscriptions([i \in 1..MaxSubs |-> TRUE], TRUE)
              => \A i \in ExpiredSubscriptions(subs, now_msk) :
                    Cardinality(RecentNotificationsTo(sent', subs[i].user_id, now)) = 1
      ]_vars

\* C3 witness: a cycle has run one hour after the only notification to a user
C3_Witness ==
    /\ last_event.op = "cleanup_expired_subscriptions"
    /\ \E k \in DOMAIN sent :
          /\ now = sent[k].time + SECONDS_PER_HOUR
          /\ Cardinality(NotificationsTo(sent, sent[k].user)) = 1

HasLastActivity(u, age) ==
    /\ u \in DOMAIN user_data
    /\ "last_activity" \in DOMAIN user_data[u]
    /\ now - user_data[u]["last_activity"] = age

\* the sessions whose last_activity is not more than 2 hours old
Fresh == {u \in DOMAIN user_data :
             /\ "last_activity" \in DOMAIN user_data[u]
             /\ now - user_data[u]["last_activity"] <= USER_DATA_MAX_AGE}

\* C4 as stated: after a janitor cycle every session whose last_activity was
\* more than 2 hours before the cycle is absent, and every session whose
\* last_activity was 10 minutes before the cycle is still present.
C4_Original ==
    [][ cleanup_user_data =>
          \A u \in DOMAIN user_data :
              /\ ("last_activity" \in DOMAIN user_data[u]
                  /\ now - user_data[u]["last_activity"] > USER_DATA_MAX_AGE)
                     => u \notin DOMAIN user_data'
              /\ HasLastActivity(u, 600) => u \in DOMAIN user_data'
      ]_vars

\* C4 amended: after a janitor cycle every session whose last_activity was
\* more than 2 hours before the cycle is absent; a session whose
\* last_activity was 10 minutes before the cycle is still present unless
\* more than USER_DATA_MAX_SIZE records survived the age-based eviction, in
\* which case only sessions at least as cold as every session kept are gone.
C4_JanitorEviction ==
    [][ cleanup_user_data =>
          \A u \in DOMAIN user_data :
              /\ ("last_activity" \in DOMAIN user_data[u]
                  /\ now - user_data[u]["last_activity"] > USER_DATA_MAX_AGE)
                     => u \notin DOMAIN user_data'
              /\ (HasLastActivity(u, 600) /\ u \notin DOMAIN user_data')
                     => /\ Cardinality(Fresh) > USER_DATA_MAX_SIZE
                        /\ \A v \in DOMAIN user_data' :
                              user_data[v]["last_activity"] >= user_data[u]["last_activity"]
      ]_vars

\* C4 witness: a cycle has evicted a stale session and kept one that was
\* touched 10 minutes before
C4_Witness ==
    /\ last_event.op = "cleanup_user_data"
    /\ last_event.n >= 1
    /\ \E u \in DOMAIN user_data : HasLastActivity(u, 600)

\* what the claim calls numeric input within the range
InRange(t, lo, hi) == t.kind \in {"int", "neg"} /\ lo <= t.val /\ t.val <= hi

Reprompted ==
    /\ last_event'.answer = "reprompt"
    /\ state' = state
    /\ user_data' = user_data

\* C5: in waiting_for_age, waiting_for_weight and waiting_for_height an
\* input that is not a number or lies outside 12..100, 30..300, 100..250
\* is answered by a re-prompt and changes neither the dialog state nor the
\* profile draft.
C5_InvalidInputReprompts ==
    [][ \A u \in Users, tok \in TextInputs :
          /\ (process_age(u, tok) /\ ~InRange(tok, AGE_MIN, AGE_MAX)) => Reprompted
          /\ (process_weight(u, tok) /\ ~InRange(tok, WEIGHT_MIN, WEIGHT_MAX)) => Reprompted
          /\ (process_height(u, tok) /\ ~InRange(tok, HEIGHT_MIN, HEIGHT_MAX)) => Reprompted
      ]_vars

\* a draft field that holds a number within lo..hi
ValidNumber(x, lo, hi) == ~x.nan /\ lo <= x.v /\ x.v <= hi

DraftHas(u, keys) == u \in DOMAIN user_data /\ keys \subseteq DOMAIN user_data[u]

\* C6: a user in waiting_for_age, waiting_for_weight or waiting_for_height
\* has a record in user_data with the fields of the earlier steps (gender;
\* gender, age; gender, age, weight), each valid.
C6_DraftComplete ==
    \A u \in Users :
        /\ state[u] \in {"waiting_for_age", "waiting_for_weight", "waiting_for_height"}
              => DraftHas(u, {"gender"}) /\ user_data[u]["gender"] \in Genders
        /\ state[u] \in {"waiting_for_weight", "waiting_for_height"}
              => /\ DraftHas(u, {"age"})
                 /\ AGE_MIN <= user_data[u]["age"] /\ user_data[u]["age"] <= AGE_MAX
        /\ state[u] = "waiting_for_height"
              => /\ DraftHas(u, {"weight"})
                 /\ ValidNumber(user_data[u]["weight"], WEIGHT_MIN, WEIGHT_MAX)

\* the user has a subscription record that is active and not expired on the
\* clock of check_subscription_status
HasActiveSubscription(u) ==
    \E i \in DOMAIN subs :
        subs[i].user_id = u /\ subs[i].is_active /\ subs[i].end_date > now_msk

C8_RemainingFreeRequests ==
    [][ \A u \in Pair :
          get_remaining_free_requests(u) =>
              IF \E i \in DOMAIN subs :
                    subs[i].user_id = u /\ subs[i].is_active /\ subs[i].end_date > now
              THEN last_event'.answer = "inf"
              ELSE /\ last_event'.answer = "finite"
                   /\ last_event'.n =
                         Max(0, FREE_REQUESTS_LIMIT
                                - Cardinality({i \in DOMAIN rows : rows[i].user_id = u}))
      ]_vars

\* C9: check_subscription_status returns true only if some subscription of
\* the user has end_date > now; when it returns, no subscription of the user
\* is active with end_date <= now (on either clock); a second call changes
\* nothing and returns the same.
C9_StatusCheck ==
    [][ \A u \in Pair :
          check_subscription_status(u) =>
              /\ last_event'.answer = "True"
                    => \E i \in DOMAIN subs : subs[i].user_id = u /\ subs[i].end_date > now
              /\ \A i \in DOMAIN subs' :
                    (subs'[i].user_id = u /\ subs'[i].is_active)
                        => (subs'[i].end_date > now_msk /\ subs'[i].end_date > now)
              /\ SubsAfterCheck(u)' = subs'
              /\ IsSubscribed(u)' = (last_event'.answer = "True")
      ]_vars

\* C9 witness: a status check has answered False for a user whose only
\* subscriptions are expired and deactivated
C9_Witness ==
    /\ last_event.op = "check_subscription_status"
    /\ last_event.answer = "False"
    /\ \E i \in DOMAIN subs : subs[i].user_id = last_event.user
    /\ \A i \in DOMAIN subs :
          subs[i].user_id = last_event.user
              => (~subs[i].is_active /\ subs[i].end_date <= now)

\* the portion sizes tried for the round trip
PortionSizes == {1, 11, 50, 100, 101, 150, 200, 301}

Macros == {"calories", "proteins", "fats", "carbs"}

\* every outcome of fd -> W2 -> back restores the four values within 0.1
RoundTripRestores(fd, W2) ==
    \A fd2 \in Recalc(fd, W2) :
        \A fd3 \in Recalc(fd2, fd.portion_weight) :
            \A k \in Macros : Abs(fd3[k] - fd[k]) <= 10

CachedFood == {user_data[u]["food_data"] :
                  u \in {x \in DOMAIN user_data : "food_data" \in DOMAIN user_data[x]}}

\* C10 as stated: for every cached food record and every positive portion
\* size W2, recalculating from the current portion W1 to W2 and back to W1
\* restores calories, proteins, fats and carbs within 0.1.
C10_Original ==
    \A fd \in CachedFood : \A W2 \in PortionSizes : RoundTripRestores(fd, W2)

\* C10 amended: the round trip W1 -> W2 -> W1 restores the four values
\* within 0.1 when W2 >= W1.
C10_RoundTripUpscale ==
    \A fd \in CachedFood :
        \A W2 \in PortionSizes : W2 >= fd.portion_weight => RoundTripRestores(fd, W2)

\* C10 witness: a cached record has been recalculated by handle_portion_size
\* from 150 g to 100 g, and a larger portion takes it there and back
C10_Witness ==
    /\ last_event.op = "handle_portion_size"
    /\ last_event.answer = "result"
    /\ \E fd \in CachedFood :
          /\ fd.name = "soup"
          /\ fd.portion_weight = 100
          /\ \E W2 \in PortionSizes : W2 > fd.portion_weight /\ RoundTripRestores(fd, W2)

\* the four values of a message that the claim calls numbers within range
WithinNormRanges(values) ==
    /\ Len(values) = 4
    /\ InRange(values[1], CALORIES_MIN, CALORIES_MAX)
    /\ InRange(values[2], PROTEINS_MIN, PROTEINS_MAX)
    /\ InRange(values[3], FATS_MIN, FATS_MAX)
    /\ InRange(values[4], CARBS_MIN, CARBS_MAX)

HasNorms(U, u, values) ==
    /\ u \in DOMAIN U
    /\ \A i \in 1..4 : NormKeys[i] \in DOMAIN U[u] /\ U[u][NormKeys[i]] = Float(values[i].val)

\* C11: process_manual_norms given exactly four numbers within the ranges
\* (calories 500..10000, proteins and fats 10..500, carbs 10..1000) sets the
\* four daily_* columns of the user to exactly those values; given any other
\* token count or a value out of range it reports an error and changes
\* neither the persisted profile nor the dialog state.  Stated for the
\* favourable case: the user has a row in users and the store works.
C11_ManualNorms ==
    [][ \A u \in DOMAIN db_users, values \in NormsInputs :
          process_manual_norms(u, values, TRUE) =>
              IF WithinNormRanges(values)
              THEN HasNorms(db_users', u, values)
              ELSE /\ last_event'.answer = "error"
                   /\ db_users' = db_users
                   /\ state' = state
      ]_vars

\* the profile columns of u hold the draft and norms computed from it
Committed(U, u, draft) ==
    /\ u \in DOMAIN U
    /\ \E norms \in calculate_daily_norms(draft["gender"], draft["age"], draft["weight"],
                         draft["height"], draft["activity_level"], draft["goal"]) :
          U[u] = WithNorms(ProfileOf(draft), norms)

\* C12: from dialog state None the events setup_profile button, gender
\* chosen, valid age, valid weight, valid height, activity chosen, goal
\* chosen take the dialog state of the user to waiting_for_gender,
\* waiting_for_age, waiting_for_weight, waiting_for_height,
\* waiting_for_activity, waiting_for_goal, in that order, and back to None,
\* and the last step, and no earlier one, commits the profile with the norms
\* computed from it.
C12_WizardSequence ==
    [][ \A u \in Users :
          /\ (state[u] = "None" /\ setup_callback(u, "setup_profile"))
                => (state'[u] = "waiting_for_gender" /\ db_users' = db_users)
          /\ \A g \in Genders :
                (state[u] = "waiting_for_gender" /\ gender_callback(u, g))
                    => (state'[u] = "waiting_for_age" /\ db_users' = db_users)
          /\ \A tok \in TextInputs :
                /\ (process_age(u, tok) /\ InRange(tok, AGE_MIN, AGE_MAX))
                      => (state'[u] = "waiting_for_weight" /\ db_users' = db_users)
                /\ (process_weight(u, tok) /\ InRange(tok, WEIGHT_MIN, WEIGHT_MAX))
                      => (state'[u] = "waiting_for_height" /\ db_users' = db_users)
                /\ (process_height(u, tok) /\ InRange(tok, HEIGHT_MIN, HEIGHT_MAX))
                      => (state'[u] = "waiting_for_activity" /\ db_users' = db_users)
          /\ \A a \in Activities :
                (state[u] = "waiting_for_activity" /\ activity_callback(u, a))
                    => (state'[u] = "waiting_for_goal" /\ db_users' = db_users)
          /\ \A goal \in Goals :
                (state[u] = "waiting_for_goal" /\ goal_callback(u, goal, TRUE))
                    => /\ state'[u] = "None"
                       /\ Committed(db_users', u, Put(user_data[u], "goal", goal))
      ]_vars

\* the draft fields the wizard collects before the goal is chosen
DraftFields == {"gender", "age", "weight", "height", "activity_level"}

WizardOps == {"setup_callback", "gender_callback", "process_age", "process_weight",
              "process_height", "activity_callback", "goal_callback"}

\* C13: whatever the order of wizard buttons and texts, a wizard step writes
\* the users table only if it is goal_callback and the session record of
\* the user holds gender, age, weight, height and activity_level besides
\* the goal just chosen; the six columns written are those six values.
C13_CommitOnlyCompleteDraft ==
    [][ (last_event'.op \in WizardOps
         /\ (db_users' # db_users \/ last_event'.answer = "profile_saved"))
          => LET u == last_event'.user
             IN  /\ last_event'.op = "goal_callback"
                 /\ u \in DOMAIN user_data
                 /\ DraftFields \subseteq DOMAIN user_data[u]
                 /\ u \in DOMAIN db_users'
                 /\ \A k \in DraftFields :
                       k \in DOMAIN db_users'[u] /\ db_users'[u][k] = user_data[u][k]
                 /\ "goal" \in DOMAIN db_users'[u]
                 /\ db_users'[u]["goal"] \in Goals
      ]_vars

\* C13 witness: goal_callback has committed a profile after stale buttons
\* had been pressed: the profile is saved although the dialog state says
\* the wizard is at an earlier step
C13_Witness ==
    /\ last_event.op = "goal_callback"
    /\ last_event.answer = "profile_saved"
    /\ state[last_event.user] \in {"waiting_for_age", "waiting_for_weight"}
    /\ DraftFields \subseteq DOMAIN db_users[last_event.user]

\* the handlers of inbound events: commands, buttons, texts, photo, voice
InboundOps == {"start", "setup_callback", "gender_callback", "process_age",
               "process_weight", "process_height", "activity_callback",
               "goal_callback", "photo_handler", "voice_handler", "text_handler",
               "add_stats_callback", "specify_food_callback",
               "specify_portion_callback", "handle_food_name",
               "handle_portion_size", "process_manual_norms"}

\* C14: every inbound event from a user sets last_activity of that user's
\* record in user_data to the time of the event.
C14_EveryEventTouches ==
    [][ (last_event'.op \in InboundOps /\ last_event'.user \in Users)
          => LET u == last_event'.user
             IN  /\ u \in DOMAIN user_data'
                 /\ "last_activity" \in DOMAIN user_data'[u]
                 /\ user_data'[u]["last_activity"] = now'
      ]_vars

AnalysisOps == {"photo_handler", "voice_handler", "text_handler"}

\* the keys the reset removes
Transient(k) == k = "food_data" \/ HasStatsPrefix(k)

\* C15: when a photo, voice or text message of user u is analysed, the
\* handler removes food_data and every added_to_stats_* key of u (a
\* food_data present afterwards is the new analysis), leaves every other key
\* of u's record as it was, except last_activity which it has just set, adds
\* no other key, and leaves the record of every other user unchanged.
C15_ResetFrame ==
    [][ (last_event'.op \in AnalysisOps /\ last_event'.answer # "help")
          => LET u  == last_event'.user
                 d  == Get(user_data, u, EmptyDict)
                 d2 == user_data'[u]
             IN  /\ \A v \in Users \ {u} :
                       /\ v \in DOMAIN user_data' <=> v \in DOMAIN user_data
                       /\ v \in DOMAIN user_data => user_data'[v] = user_data[v]
                 /\ u \in DOMAIN user_data'
                 /\ \A k \in DOMAIN d2 : ~HasStatsPrefix(k)
                 /\ "food_data" \in DOMAIN d2
                       => /\ last_event'.answer = "result"
                          /\ d2["food_data"]["analysis"] = next_message_id
                 /\ \A k \in DOMAIN d :
                       (~Transient(k) /\ k # "last_activity")
                           => (k \in DOMAIN d2 /\ d2[k] = d[k])
                 /\ DOMAIN d2 \subseteq (DOMAIN d) \cup {"last_activity", "food_data"}
                 /\ "last_activity" \in DOMAIN d2
                 /\ d2["last_activity"] = now
      ]_vars

\* C15 witness: a message that led to no new analysis has been handled for a
\* user whose record held an analysis added to the statistics: the record has
\* lost food_data and the flag and kept gender, message_id and analysis_id,
\* while the other user has a record
C15_Witness ==
    /\ last_event.op \in AnalysisOps
    /\ last_event.answer \in {"no_food", "no_free_requests"}
    /\ LET u == last_event.user
       IN  /\ {"gender", "message_id", "analysis_id"} \subseteq DOMAIN user_data[u]
           /\ "food_data" \notin DOMAIN user_data[u]
           /\ \E v \in DOMAIN user_data : v # u /\ "gender" \in DOMAIN user_data[v]

ReconcilingOps == {"cleanup_expired_subscriptions", "check_subscription_status"}

\* C16: a reconciler cycle or a subscription-status check removes no
\* UserSubscription record and changes a record only by setting is_active
\* from true to false, and only if the record's end_date <= now: it never
\* sets is_active from false to true and changes no other field.
C16_OnlyExpiredDeactivated ==
    [][ last_event'.op \in ReconcilingOps
          => /\ Len(subs') = Len(subs)
             /\ \A i \in DOMAIN subs :
                   \/ subs'[i] = subs[i]
                   \/ /\ subs[i].is_active
                      /\ subs[i].end_date <= now
                      /\ subs'[i] = [subs[i] EXCEPT !.is_active = FALSE]
      ]_vars

\* C17: the commit of a reconciler cycle deactivates, in one transaction,
\* every subscription with is_active = true and end_date <= now; and a
\* renewal notification is sent only for a subscription that is persisted as
\* inactive, before and after the send.
C17_CommitBeforeNotify ==
    [][ /\ last_event'.op = "reconciler_commit" /\ last_event'.answer # "error"
            => \A i \in DOMAIN subs :
                  (subs[i].is_active /\ subs[i].end_date <= now) => ~subs'[i].is_active
        /\ Len(sent') > Len(sent)
            => LET n == sent'[Len(sent')]
               IN  /\ ~subs[n.sub].is_active
                   /\ ~subs'[n.sub].is_active
                   /\ subs[n.sub].user_id = n.user
      ]_vars

\* C17 witness: a cycle that deactivated two subscriptions in one commit has
\* sent the notifications for both
C17_Witness ==
    /\ last_event.op = "reconciler_notify"
    /\ last_event.answer = "sent"
    /\ \E j, k \in DOMAIN sent :
          /\ sent[j].sub # sent[k].sub
          /\ sent[j].time = sent[k].time
          /\ ~subs[sent[j].sub].is_active
          /\ ~subs[sent[k].sub].is_active

\* C18: an exception raised inside a cycle of a background loop (janitor,
\* reconciler, metrics flush) ends that cycle only: no loop ever terminates,
\* and a loop whose cycle raised is back at the start of its next iteration.
C18_LoopsSurvive ==
    /\ [](\A l \in Loops : loops[l] # "terminated")
    /\ \A l \in Loops : (loops[l] = "except") ~> (loops[l] = "try")

\* C18 witness: a reconciler cycle has deactivated a subscription and sent
\* the notification while the janitor is in its except clause after a cycle
\* of it raised
C18_Witness ==
    /\ last_event.op = "cleanup_expired_subscriptions"
    /\ last_event.answer = "done"
    /\ sent # <<>>
    /\ loops["cleanup_worker"] = "try"
    /\ loops["cleanup_user_data"] = "except"

\* the transient failures as the claim lists them: lock, timeout, deadlock,
\* serialization conflict
ListedTransient(e) ==
    /\ e.class \in {"OperationalError", "IntegrityError"}
    /\ e.keyword \in {"database is locked", "timeout", "deadlock",
                      "serialization failure"}

\* the transient failures with the connection failures among them
TransientOrConnection(e) ==
    /\ e.class \in {"OperationalError", "IntegrityError"}
    /\ e.keyword \in {"database is locked", "connection", "timeout", "deadlock",
                      "serialization failure"}

\* this step invokes the wrapped function
Invocation == retry'.invocations = retry.invocations + 1

\* this step is an invocation that raises
FailedInvocation == Invocation /\ retry'.last # NoError

StoreFailureAnswered ==
    \/ last_event'.op = "handle_portion_size" /\ last_event'.answer = "error"
    \/ /\ last_event'.op \in {"photo_handler", "voice_handler", "text_handler"}
       /\ last_event'.answer = "subscription_check_failed"

\* C20: when a persistent-store operation fails while an event handler runs,
\* the user gets a failure message and the user's session record is what it
\* was before the event: absent if it was absent, equal if it was there.
C20_StoreFailureLeavesSession ==
    [][StoreFailureAnswered =>
         LET u == last_event'.user
         IN  /\ (u \in DOMAIN user_data') = (u \in DOMAIN user_data)
             /\ u \in DOMAIN user_data => user_data'[u] = user_data[u]]_vars

\* the handler of this step ran to its end and left user u in the dialog
\* state next
MovedTo(u, next) ==
    /\ last_event'.answer # "KeyError"
    /\ state'[u] = next

\* C21: a user is never stuck in a dialog state: in waiting_for_age,
\* waiting_for_weight, waiting_for_height, waiting_for_food_name and
\* waiting_for_portion_size a valid input is handled without an unhandled
\* error and moves the dialog to its next state (or to None), whatever the
\* janitor or another handler has done to the session record before.
C21_NeverStuck ==
    [][ \A u \in Users, tok \in TextInputs :
          /\ (process_age(u, tok) /\ InRange(tok, AGE_MIN, AGE_MAX))
                => MovedTo(u, "waiting_for_weight")
          /\ (process_weight(u, tok) /\ InRange(tok, WEIGHT_MIN, WEIGHT_MAX))
                => MovedTo(u, "waiting_for_height")
          /\ (process_height(u, tok) /\ InRange(tok, HEIGHT_MIN, HEIGHT_MAX))
                => MovedTo(u, "None")
          /\ (\E lookup \in RecognitionResults, db_ok \in BOOLEAN :
                 handle_food_name(u, tok, lookup, db_ok)) => MovedTo(u, "None")
          /\ (\E db_ok \in BOOLEAN : handle_portion_size(u, tok, db_ok)
                 /\ IsDigit(tok) /\ tok.val > 0) => MovedTo(u, "None")
      ]_vars

\* C22: in waiting_for_food_name a food name that is not a cancel word and
\* for which the lookup answers with a non-estimated result overwrites the
\* user's most recent FoodAnalysis row, if there is one, with the new name
\* and macros; the number of rows is unchanged and the dialog state
\* becomes None.
C22_RefineOverwritesLatestRow ==
    [][ \A u \in Users, tok \in TextInputs, lookup \in Foods :
          ( /\ handle_food_name(u, tok, lookup, TRUE)
            /\ ~IsCancel(tok)
            /\ ~lookup.estimated
            /\ u \in DOMAIN user_data /\ DOMAIN user_data[u] # {}
            /\ LatestRowsOf(rows, u) # {} )
          => /\ state'[u] = "None"
             /\ Len(rows') = Len(rows)
             /\ \E i \in LatestRowsOf(rows, u) :
                   rows' = [rows EXCEPT ![i] = Overwritten(rows[i], lookup)]
      ]_vars

\* the meal type the claim gives for the hour h
MealOfHour(h) ==
    IF 5 <= h /\ h <= 10 THEN "breakfast"
    ELSE IF 11 <= h /\ h <= 15 THEN "lunch"
    ELSE IF 16 <= h /\ h <= 20 THEN "dinner"
    ELSE "snack"

\* the hour of the day in UTC+3
LocalHour == ((now \div SECONDS_PER_HOUR) + TIMEZONE_OFFSET) % 24

\* C23: for every hour h in 0..23 determine_meal_type returns breakfast for
\* 5 <= h <= 10, lunch for 11 <= h <= 15, dinner for 16 <= h <= 20 and snack
\* otherwise, and the row saved by add_stats_callback carries the meal type
\* of the local (UTC+3) hour at the time of the press.
C23_MealType ==
    /\ [](\A h \in 0..23, s \in {0, SECONDS_PER_HOUR - 1} :
             determine_meal_type(h * SECONDS_PER_HOUR + s) = MealOfHour(h))
    /\ [][ \A u \in Users, m \in 1..MaxMsg :
             (add_stats_callback(u, m, TRUE) /\ rows' # rows)
               => /\ Len(rows') = Len(rows) + 1
                  /\ rows'[Len(rows')].user_id = u
                  /\ rows'[Len(rows')].meal_type = MealOfHour(LocalHour)
         ]_vars

\* C23 witness: a press between 02:00 and 04:59 UTC has saved a breakfast,
\* and a press between 18:00 and 20:59 UTC a snack
C23_Witness ==
    /\ Len(rows) = 2
    /\ rows[1].meal_type = "breakfast"
    /\ ((rows[1].analysis_date \div SECONDS_PER_HOUR) - TIMEZONE_OFFSET) % 24 \in 2..4
    /\ rows[2].meal_type = "snack"
    /\ ((rows[2].analysis_date \div SECONDS_PER_HOUR) - TIMEZONE_OFFSET) % 24 \in 18..20

\* the value v, in hundredths, is num / den hundredths rounded to one decimal
RoundedToOneDecimal(v, num, den) ==
    /\ ~v.nan
    /\ v.v % 10 = 0
    /\ 2 * Abs(v.v * den - num) <= 10 * den

\* the claim's daily calories for a draft, times 3200: four times the BMR
\* 10*weight + 6.25*height - 5*age + 5 (male) or - 161 (female), times forty
\* times the activity factor, times twenty times the goal's scale 0.8, 1.15
\* or 1.0
ClaimedCalories3200(d) ==
    (40 * d["weight"].v + 25 * d["height"].v - 20 * d["age"]
        + 4 * (IF d["gender"] = "male" THEN 5 ELSE 0 - 161))
    * (d["activity_level"] \div 25)
    * (IF d["goal"] = "weight_loss" THEN 16 ELSE IF d["goal"] = "weight_gain" THEN 23 ELSE 20)

\* the claim's calorie shares of protein, fat and carbohydrate, in percent
ClaimedShares(goal) ==
    IF goal = "weight_loss" THEN <<35, 30, 35>>
    ELSE IF goal = "weight_gain" THEN <<30, 25, 45>>
    ELSE <<30, 30, 40>>

\* C24: for every gender, age in 12..100, weight in 30..300, height in
\* 100..250, activity factor and goal, calculate_daily_norms returns daily
\* calories equal to (10*weight + 6.25*height - 5*age + 5 for male, - 161 for
\* female) * activity factor scaled by 0.8, 1.15 or 1.0, and protein, fat and
\* carbohydrate grams equal to the goal's calorie share divided by 4, 9 and
\* 4, each rounded to one decimal.
C24_DailyNorms ==
    [][ \A goal \in Goals :
          (goal_callback(1, goal, TRUE) /\ last_event'.answer = "profile_saved")
            => LET d == Put(user_data[1], "goal", goal)
                   N == ClaimedCalories3200(d)
                   share == ClaimedShares(goal)
                   row == db_users'[1]
               IN  /\ RoundedToOneDecimal(row["daily_calories"], N, 32)
                   /\ RoundedToOneDecimal(row["daily_proteins"], N * (share[1] \div 5), 32 * 20 * 4)
                   /\ RoundedToOneDecimal(row["daily_fats"], N * (share[2] \div 5), 32 * 20 * 9)
                   /\ RoundedToOneDecimal(row["daily_carbs"], N * (share[3] \div 5), 32 * 20 * 4)
      ]_vars

\* C24 witness: the wizard has saved the norms of a woman of 57 years, 83 kg
\* and 178 cm with activity 1.725 who wants to lose weight: 2065.2 kcal
C24_Witness ==
    /\ last_event.op = "goal_callback"
    /\ last_event.answer = "profile_saved"
    /\ db_users[1]["gender"] = "female"
    /\ db_users[1]["age"] = 57
    /\ db_users[1]["weight"] = Float(83)
    /\ db_users[1]["height"] = Float(178)
    /\ db_users[1]["activity_level"] = 1725
    /\ db_users[1]["goal"] = "weight_loss"
    /\ db_users[1]["daily_calories"] = Float(206520)

\* the invocations of track_api_call for the name that have returned, and
\* those of them with error=True
DoneCalls(name) ==
    Cardinality({t \in Threads : tracking[t].pc = "done" /\ tracking[t].api_name = name})

DoneErrors(name) ==
    Cardinality({t \in Threads : /\ tracking[t].pc = "done"
                                 /\ tracking[t].api_name = name
                                 /\ tracking[t].error})

\* no thread is between the first and the last statement of track_api_call
NoCallInProgress == \A t \in Threads : tracking[t].pc \in {"idle", "acquire", "done"}

\* the counters of the dict m are those of the invocations that have
\* returned
CountsReturnedCalls(m) ==
    \A name \in ApiNames :
        /\ Get(m.api_calls, name, 0) = DoneCalls(name)
        /\ Get(m.api_errors, name, 0) = DoneErrors(name)

\* C25: under any interleaving of concurrent track_api_call invocations for
\* the same API name, with concurrent get_metrics_summary and save_metrics
\* calls, the call counter of the name grows by the number of invocations
\* and the error counter by the number of those with error=True, and a
\* snapshot (summary or saved file) never shows a partly applied invocation.
C25_NoLostUpdate ==
    /\ [](NoCallInProgress => CountsReturnedCalls(metrics))
    /\ [][get_metrics_summary => CountsReturnedCalls(metrics)]_vars
    /\ [][metrics_file' # metrics_file => CountsReturnedCalls(metrics_file')]_vars

\* C25 witness: two invocations for the same name, one of them with
\* error=True, have returned, and metrics were saved between the two
C25_Witness ==
    /\ \A t \in Threads : tracking[t].pc = "done" /\ tracking[t].api_name = "db_add_subscription"
    /\ \E t \in Threads : tracking[t].error
    /\ metrics.api_calls["db_add_subscription"] = Cardinality(Threads)
    /\ metrics_file # EmptyDict
    /\ Get(metrics_file.api_calls, "db_add_subscription", 0) = Cardinality(Threads) - 1

\* the file holds the counters, the users and the restart count of the
\* metrics m
Persists(file, m) ==
    /\ \A k \in ScalarCounters : file[k] = m[k]
    /\ \A k \in DictCounters :
          \A name \in (DOMAIN file[k]) \cup (DOMAIN m[k]) :
              Get(file[k], name, 0) = Get(m[k], name, 0)
    /\ SetOf(file.unique_users) = m.unique_users
    /\ file.restart_count = m.restart_count

\* the metrics m are what a load of the file into the metrics before makes:
\* each counter the sum of the persisted and the in-memory value, the users
\* those of the file, restart_count one more than persisted
Restores(m, file, before) ==
    /\ \A k \in ScalarCounters : m[k] = file[k] + before[k]
    /\ \A k \in DictCounters :
          \A name \in (DOMAIN file[k]) \cup (DOMAIN m[k]) \cup (DOMAIN before[k]) :
              Get(m[k], name, 0) = Get(file[k], name, 0) + Get(before[k], name, 0)
    /\ m.unique_users = SetOf(file.unique_users)
    /\ m.restart_count = file.restart_count + 1

\* C26: saving the metrics and loading them in a restarted process restores
\* every persisted counter (API calls, API errors, analyses by type,
\* commands, error types, subscription purchases) to the sum of its
\* persisted value and its in-memory value at load, restores the set of
\* unique users, and sets restart_count to the persisted value plus 1.
C26_SaveLoad ==
    /\ [][metrics_file' # metrics_file => Persists(metrics_file', metrics')]_vars
    /\ [][(restart /\ metrics_file # EmptyDict)
            => Restores(metrics', metrics_file, DefaultMetrics)]_vars

\* C26 witness: the process has started for the third time on a file that
\* holds a text analysis, a user, an API call and a purchase
C26_Witness ==
    /\ last_event.op = "restart"
    /\ metrics.restart_count = 2
    /\ metrics.text_analyses >= 1
    /\ metrics.unique_users # {}
    /\ SumValues(metrics.api_calls) >= 1
    /\ metrics.subscription_purchases = 1
    /\ Persists(metrics_file, [metrics EXCEPT !.restart_count = 1])

\* In SpecSession photo_handler alone stores food_data, right after
\* update_user_activity has set last_activity to the instant of the message,
\* and no other step writes last_activity: the last_activity of a record
\* that holds food_data is the instant at which the food_data was stored.
StoredWithActivity ==
    [][ \A u \in DOMAIN user_data' :
          "food_data" \in DOMAIN user_data'[u]
             => \/ /\ u \in DOMAIN user_data
                   /\ "food_data" \in DOMAIN user_data[u]
                   /\ user_data'[u]["food_data"] = user_data[u]["food_data"]
                   /\ user_data'[u]["last_activity"] = user_data[u]["last_activity"]
                \/ /\ last_event'.op = "photo_handler"
                   /\ last_event'.user = u
                   /\ user_data'[u]["last_activity"] = now
      ]_vars

StoredAt(d) == d["last_activity"]

\* C27: after a janitor cycle no surviving record holds food_data that was
\* stored more than 1 hour before the cycle.
C27_NoStaleFoodData ==
    [][ cleanup_user_data =>
          \A u \in DOMAIN user_data' :
              "food_data" \in DOMAIN user_data'[u]
                 => now - StoredAt(user_data'[u]) <= FOOD_DATA_MAX_AGE
      ]_vars

\* the fields the claim names: the profile draft and last_activity
FramedKeys == ProfileKeys \cup {"last_activity"}

\* food_data of record d is stale at the cycle: stored more than 1 hour before
StaleFoodData(d) == now - StoredAt(d) > FOOD_DATA_MAX_AGE

\* C28: for every record that survives a janitor cycle, the cycle leaves the
\* dialog state of the user, gender, age, weight, height, activity_level,
\* goal and last_activity as they were, and every key it removes starts with
\* temp_ or added_to_stats_ or is a food_data stored more than 1 hour before.
C28_JanitorFrame ==
    [][ cleanup_user_data =>
          \A u \in DOMAIN user_data' :
              /\ u \in DOMAIN user_data
              /\ state'[u] = state[u]
              /\ \A k \in FramedKeys :
                    /\ k \in DOMAIN user_data'[u] <=> k \in DOMAIN user_data[u]
                    /\ k \in DOMAIN user_data[u] => user_data'[u][k] = user_data[u][k]
              /\ \A k \in (DOMAIN user_data[u]) \ DOMAIN user_data'[u] :
                    \/ HasTempPrefix(k)
                    \/ HasStatsPrefix(k)
                    \/ k = "food_data" /\ StaleFoodData(user_data[u])
      ]_vars

\* C28 witness: after a cycle, a user in the dialog state waiting_for_weight
\* has a record with gender, age, goal, last_activity, the one analysis made
\* so far and the id of its row, and without the flag that add_stats_callback
\* had set together with analysis_id
C28_Witness ==
    /\ last_event.op = "cleanup_user_data"
    /\ next_message_id = 2
    /\ state[1] = "waiting_for_weight"
    /\ 1 \in DOMAIN user_data
    /\ {"gender", "age", "goal", "last_activity", "food_data", "analysis_id"}
          \subseteq DOMAIN user_data[1]
    /\ \A k \in DOMAIN user_data[1] : ~HasStatsPrefix(k)

\* the records a forced eviction has removed: not older than 2 hours, absent
\* after the cycle
ForcedOut == Fresh \ DOMAIN user_data'

\* C29: in a janitor cycle a record that is not older than 2 hours is
\* removed only if the number n of such records exceeds USER_DATA_MAX_SIZE;
\* the cycle then removes exactly floor(0.2 * n) of them, and every record
\* removed has a last_activity less than or equal to that of every record
\* kept.
C29_ForcedEviction ==
    [][ cleanup_user_data =>
          LET n == Cardinality(Fresh)
          IN  /\ DOMAIN user_data' \subseteq Fresh
              /\ ForcedOut # {} => n > USER_DATA_MAX_SIZE
              /\ n > USER_DATA_MAX_SIZE
                    => /\ 5 * Cardinality(ForcedOut) <= n
                       /\ n < 5 * (Cardinality(ForcedOut) + 1)
                       /\ \A a \in ForcedOut, b \in DOMAIN user_data' :
                             user_data[a]["last_activity"] <= user_data[b]["last_activity"]
      ]_vars

\* C29 witness: a cycle has removed one record by force (no record is older
\* than 10 minutes) and has kept USER_DATA_MAX_SIZE records, among them one
\* touched at the instant of the cycle and one touched 10 minutes before
C29_Witness ==
    /\ last_event.op = "cleanup_user_data"
    /\ last_event.n = 1
    /\ now = StartTime + 600
    /\ Cardinality(DOMAIN user_data) = USER_DATA_MAX_SIZE
    /\ \E u \in DOMAIN user_data : HasLastActivity(u, 0)
    /\ \E u \in DOMAIN user_data : HasLastActivity(u, 600)

\* the rows persisted for result message m of user u
RowsOf(u, m) == {i \in DOMAIN rows : rows[i].user_id = u /\ rows[i].msg = m}

\* both worker threads have run add_stats_callback to its end for result
\* message m of user u, neither has met an error, and the record of u still
\* holds the analysis shown in m (no later analysis has reset the flags)
BothHandled(u, m) ==
    /\ \A t \in Threads :
          /\ workers[t].pc = "done"
          /\ workers[t].user = u
          /\ workers[t].message_id = m
          /\ workers[t].answer \in {"added", "already_added"}
    /\ u \in DOMAIN user_data
    /\ "food_data" \in DOMAIN user_data[u]
    /\ user_data[u]["food_data"]["analysis"] = m

\* C30: when two add_stats_callback invocations for the same user and the
\* same result message run on different worker threads, under every
\* interleaving exactly one FoodAnalysis row is persisted.
C30_ExactlyOneRow ==
    \A u \in Pair, m \in 1..MaxMsg :
        BothHandled(u, m) => Cardinality(RowsOf(u, m)) = 1

\* C31: with cleanup_expired_subscriptions running in the reconciler thread
\* and in the handler thread of /fix_subscriptions at once, at most one
\* renewal notification is sent to a user, and the rebuilding of
\* notification_cache by one thread loses no entry that is less than 48
\* hours old.
C31_OneNotificationNoLostEntry ==
    [][ /\ \A u \in Users : Cardinality(NotificationsTo(sent', u)) <= 1
        /\ (fix_assign \/ reconciler_purge)
              => \A u \in DOMAIN notification_cache :
                     now - notification_cache[u] < NOTIFY_CACHE_HORIZON
                        => /\ u \in DOMAIN notification_cache'
                           /\ notification_cache'[u] = notification_cache[u]
      ]_vars

\* a photo of user u has been handled to its end in the present instant and
\* no janitor cycle is in progress
EventAndCycleCompleted(t) ==
    /\ workers[t].pc = "done"
    /\ workers[t].answer = "result"
    /\ workers[t].started = now
    /\ janitor.pc = "sleep"

\* C32: under every interleaving of a janitor cycle with a photo of user u,
\* once both have completed the record of u is present in user_data and
\* holds the last_activity and the food_data written by the event.
C32_EventSurvivesJanitor ==
    \A t \in Threads :
        EventAndCycleCompleted(t)
           => LET u == workers[t].user
              IN  /\ u \in DOMAIN user_data
                  /\ "last_activity" \in DOMAIN user_data[u]
                  /\ user_data[u]["last_activity"] = workers[t].started
                  /\ "food_data" \in DOMAIN user_data[u]
                  /\ user_data[u]["food_data"]["analysis"] = workers[t].message_id

\* a subscription that is active although its end_date has passed
ActiveExpired(i) ==
    /\ i \in DOMAIN subs
    /\ subs[i].is_active
    /\ subs[i].end_date <= now

Deactivated(i) ==
    /\ i \in DOMAIN subs
    /\ ~subs[i].is_active

\* a cycle ends: with the return at "nothing expired", or with the purge
\* after the notifications; started is the instant at which it began
CycleEnds(started) ==
    \/ /\ reconciler_commit(TRUE)
       /\ reconciler' = reconciler
       /\ started = now
    \/ /\ reconciler_purge
       /\ started = reconciler.current_time

\* C33: while the reconciler loop runs and the store is available, every
\* active subscription whose end_date has passed is eventually stored with
\* is_active = false, and it is inactive at the end of the first successful
\* cycle that starts after its expiry.
C33_ExpiredEventuallyInactive ==
    /\ \A i \in 1..MaxSubs : ActiveExpired(i) ~> Deactivated(i)
    /\ [][ \A started \in LiveInstants \cup {StartTime} :
              CycleEnds(started)
                 => \A i \in DOMAIN subs :
                        subs[i].end_date <= started => ~subs'[i].is_active
         ]_vars

\* a reconciler cycle has deactivated a subscription whose end_date has passed
C33_Witness ==
    /\ last_event.op = "reconciler_commit"
    /\ last_event.answer = "committed"
    /\ \E i \in DOMAIN subs : subs[i].end_date <= now /\ ~subs[i].is_active

\* the tenths nearest to num / den hundredths: one, or two where num / den
\* lies half-way between them
NearestTenths(num, den) ==
    LET below == 10 * (num \div (10 * den))
    IN  {v \in {below, below + 10} : 2 * Abs(v * den - num) <= 10 * den}

\* round() of the exact quotient: half-way cases go to the even tenth
HalfEvenTenth(num, den) ==
    {v \in NearestTenths(num, den) :
        Cardinality(NearestTenths(num, den)) = 2 => (v \div 10) % 2 = 0}

MacroKeys == {"calories", "proteins", "fats", "carbs"}

HasFoodData(u) == u \in DOMAIN user_data /\ "food_data" \in DOMAIN user_data[u]

\* the cached food data of u after the step is the one before it with the
\* four values rescaled to grams, each to a tenth that Rounded allows, and
\* portion_weight = grams
Rescaled(u, grams, Rounded(_, _)) ==
    LET old == user_data[u]["food_data"]
        new == user_data'[u]["food_data"]
    IN  /\ DOMAIN new = DOMAIN old
        /\ \A k \in MacroKeys : new[k] \in Rounded(old[k] * grams, old.portion_weight)
        /\ new.portion_weight = grams
        /\ \A k \in DOMAIN old \ (MacroKeys \cup {"portion_weight"}) : new[k] = old[k]

\* what C34 says of a message tok of user u handled in waiting_for_portion_size
PortionSizeContract(u, tok, Rounded(_, _)) ==
    (\E db_ok \in BOOLEAN : handle_portion_size(u, tok, db_ok))
       => IF IsCancel(tok)
          THEN state'[u] = "None" /\ user_data' = user_data
          ELSE IF ~IntParses(tok) \/ tok.val <= 0
          THEN state' = state /\ user_data' = user_data
          ELSE /\ state'[u] = "None"
               /\ IF HasFoodData(u)
                  THEN Rescaled(u, tok.val, Rounded)
                  ELSE user_data' = user_data

\* C34 as stated: in waiting_for_portion_size an input that is not all
\* digits or not positive leaves the dialog state and the cached food data
\* unchanged; a positive integer grams value moves the state to None and,
\* when cached food data exists, replaces calories, proteins, fats and carbs
\* by round(old_value * new_grams / old_grams, 1) and portion_weight by
\* new_grams; a cancel word moves the state to None and leaves the cached
\* food data unchanged.
C34_Original ==
    [][ \A u \in Users, tok \in GramsInputs : PortionSizeContract(u, tok, HalfEvenTenth) ]_vars

\* C34 amended: as stated, the four values being replaced by
\* round(old_value * (new_grams / old_grams), 1) as the floats give it: the
\* tenth nearest to old_value * new_grams / old_grams, and either of the two
\* nearest tenths where that quotient lies half-way between them.
C34_PortionSize ==
    [][ \A u \in Users, tok \in GramsInputs : PortionSizeContract(u, tok, NearestTenths) ]_vars

\* C34 witness: 250.55 kcal of soup at 150 g have been recalculated to 9 g
C34_Witness ==
    /\ last_event.op = "handle_portion_size"
    /\ last_event.answer = "result"
    /\ \E fd \in CachedFood :
          fd.name = "soup" /\ fd.portion_weight = 9 /\ fd.fats = 60

\* the response times held for the API name, oldest first
Samples(name) == metrics.api_response_times[name].items

\* C35: in every reachable state, for every API name the stored
\* response-time samples number at most max_response_times (100 in the
\* program), also after metrics were loaded from a persisted snapshot.
C35_SamplesBounded ==
    \A name \in DOMAIN metrics.api_response_times :
        Len(Samples(name)) <= max_response_times

\* no subscription of u is active at the present instant
NoActiveSubscription(u) ==
    ~\E i \in DOMAIN subs : subs[i].user_id = u /\ subs[i].is_active /\ subs[i].end_date > now

\* the free requests of u are used up: FREE_REQUESTS_LIMIT rows or more
NoFreeRequestsLeft(u) ==
    Cardinality({i \in DOMAIN rows : rows[i].user_id = u}) >= FREE_REQUESTS_LIMIT

\* a photo, a voice message or a text of u is handled, the subscription
\* check returning
AnalysisRequest(u) ==
    \E res \in RecognitionResults :
        \/ photo_handler(u, res, TRUE)
        \/ voice_handler(u, res, TRUE)
        \/ text_handler(u, FALSE, res, TRUE)

\* C36: for a user with no active subscription and no free request left, a
\* photo, voice or text analysis request is refused: recognition is not
\* invoked (the answer is the refusal; no result message and no analysis
\* counted), no food_data is stored for the user and no FoodAnalysis row is
\* created by the request.
C36_Refused ==
    [][ \A u \in Users :
          (AnalysisRequest(u) /\ NoActiveSubscription(u) /\ NoFreeRequestsLeft(u))
             => /\ last_event'.answer = "no_free_requests"
                /\ ~(u \in DOMAIN user_data' /\ "food_data" \in DOMAIN user_data'[u])
                /\ rows' = rows
                /\ result_messages' = result_messages
                /\ metrics' = metrics
      ]_vars

\* C36 witness: a request was refused on a later day than the one the
\* user's free request was used on, after the user's subscription expired
C36_Witness ==
    /\ last_event.answer = "no_free_requests"
    /\ \E i \in DOMAIN rows : rows[i].analysis_date \div SECONDS_PER_DAY < now \div SECONDS_PER_DAY
    /\ \E i \in DOMAIN subs : subs[i].user_id = last_event.user /\ ~subs[i].is_active

\* a subscription is within its paid period [start_date, end_date)
InPaidPeriod(i) == subs[i].start_date <= now /\ now < subs[i].end_date

\* C37: a subscription created by add_subscription at time t for m months is
\* reported active by check_subscription_status at every instant in
\* [t, t + 30*m days) and is not deactivated by a reconciler cycle before
\* t + 30*m days: the clock that computes end_date and the clock that tests
\* expiry denote the same time.
C37_ActiveForPaidPeriod ==
    [][ /\ \A u \in Users :
              (check_subscription_status(u)
                 /\ \E i \in DOMAIN subs : subs[i].user_id = u /\ InPaidPeriod(i))
                 => last_event'.answer = "True"
        /\ last_event'.op = "cleanup_expired_subscriptions"
              => \A i \in DOMAIN subs :
                     (subs[i].is_active /\ InPaidPeriod(i)) => subs'[i].is_active
      ]_vars

\* the name, macro values and portion weight a FoodAnalysis row carries
Carried(row) ==
    [name |-> row.food_name, calories |-> row.calories, proteins |-> row.proteins,
     fats |-> row.fats, carbs |-> row.carbs, portion_weight |-> row.portion_weight]

\* C38: the FoodAnalysis row persisted by pressing "add to statistics" on a
\* result message carries the name, macro values and portion weight of the
\* analysis that this message displays, also when the same user has started
\* a newer analysis or a portion recalculation before the press.
C38_RowOfPressedMessage ==
    [][ \A u \in Users, m \in 1..MaxMsg + 1 :
          (add_stats_callback(u, m, TRUE) /\ Len(rows') = Len(rows) + 1)
             => Carried(rows'[Len(rows')]) = result_messages[m].shown
      ]_vars


\* the attempts of the subscription-status query body made so far by the
\* call of get_remaining_free_requests in progress
StatusQueryAttempts == retry.caller.earlier + retry.invocations

\* C39: during one call of get_remaining_free_requests in which every store
\* access fails with a transient error, the subscription-status query body
\* is attempted at most 3 times in total.
C39_StatusQueryBound ==
    (retry.caller.func = "get_remaining_free_requests" /\ retry.caller.returned = 0)
       => StatusQueryAttempts <= MAX_RETRIES

\* subscription i has expired: its end_date has passed
HasExpired(i) ==
    /\ i \in DOMAIN subs
    /\ subs[i].end_date <= now

\* a renewal notification was sent to the user of subscription i after the
\* expiry, or within the 23 hours before it
NotifiedOfExpiry(i) ==
    /\ i \in DOMAIN subs
    /\ \E k \in DOMAIN sent :
          /\ sent[k].user = subs[i].user_id
          /\ sent[k].time >= subs[i].end_date - NOTIFY_INTERVAL

\* C40: while the reconciler loop runs and message sends succeed, every user
\* whose subscription expires is eventually sent a renewal notification,
\* unless one was sent to that user within the preceding 23 hours; also when
\* check_subscription_status for that user runs between the expiry and the
\* next reconciler cycle.
C40_ExpiredEventuallyNotified ==
    \A i \in 1..MaxSubs : HasExpired(i) ~> NotifiedOfExpiry(i)

====
